---- MODULE Spec2Model ----
(***************************************************************************)
(* Model of the FAT32-like file system (FAT32FS/format_function.py), the   *)
(* shell's authentication (Emulator.py) and the multilevel feedback queue  *)
(* scheduler (scheduler/multilevelFeedbackQueueScheduler.py).              *)
(*                                                                         *)
(* The disk image is modelled byte by byte: the FAT as an array of         *)
(* entries, the root directory as an array of 41-byte records, the data    *)
(* region as an array of clusters.  Python strings and byte strings are    *)
(* sequences of character codes (0-based slices of the source become       *)
(* 1-based SubSeq).  Record layouts are the ones of the source; the        *)
(* cluster size, the number of directory slots and the size of the data    *)
(* region are scaled down (see the bounds below).                          *)
(***************************************************************************)
EXTENDS Integers, Sequences, FiniteSets, TLC

(***************************************************************************)
(* Bounds of the model (scaled-down geometry and input sizes).             *)
(***************************************************************************)
\* bytes per cluster (4096 in the source, format_function.py:20)
CLUSTER_SIZE == 128
\* clusters swept by find_free_cluster (1000 in the source, line 733)
FREE_SWEEP == 5
\* clusters of the data region (TOTAL_CLUSTERS - 447 in the source)
NUM_DATA_CLUSTERS == 6
\* root directory geometry (190 clusters of 99 entries in the source)
ROOT_DIR_CLUSTERS == 2
ENTRIES_PER_CLUSTER == 2
\* number of operations of one run of the file-system specification
MaxOps == 3
\* number of operations of one run of the identity-store specification
MaxIdOps == 4

(***************************************************************************)
(* Program constants.                                                      *)
(***************************************************************************)
ATTR_READ_ONLY == 1
ATTR_HIDDEN == 2
ATTR_SYSTEM == 4
ATTR_DEFAULT == 32
SECTOR_SIZE == 512
FAT_START_CLUSTER == 1
FAT_CLUSTERS == 256
ROOT_DIR_START_CLUSTER == 257
DATA_START_CLUSTER == 447
FILE_RECORD_SIZE == 41
FILENAME_SIZE == 20
USER_RECORD_SIZE == 64
GROUP_RECORD_SIZE == 32
PASSWORD_SIZE == 32
LOGIN_SIZE == 30
GROUP_NAME_SIZE == 31
OFFSET_FILENAME == 0
OFFSET_ATTRIBUTE == 20
OFFSET_CREATE_TIME == 21
OFFSET_MODIFY_TIME == 24
OFFSET_MODIFY_DATE == 27
OFFSET_UID == 29
OFFSET_GID == 30
OFFSET_PERMISSIONS == 31
OFFSET_FILE_SIZE == 33
OFFSET_FIRST_CLUSTER == 37
OFFSET_USER_LOGIN == 0
OFFSET_USER_UID == 30
OFFSET_USER_GID == 31
OFFSET_USER_PASSWORD == 32
OFFSET_GROUP_GID == 0
OFFSET_GROUP_NAME == 1
OFFSET_SUPERBLOCK_MAX_UID == 32
OFFSET_SUPERBLOCK_MAX_GID == 34
DEFAULT_PERMISSIONS == 420
END_OF_CHAIN == 268435455
TOMBSTONE == 229

\* Python's None for an integer argument, and find_free_cluster's "not found"
NONE == -2
NOT_FOUND == -1

TOTAL_CLUSTERS == DATA_START_CLUSTER + NUM_DATA_CLUSTERS
DISK_SIZE == TOTAL_CLUSTERS * CLUSTER_SIZE
DataClusters == DATA_START_CLUSTER .. (TOTAL_CLUSTERS - 1)
DirSlots == 0 .. (ROOT_DIR_CLUSTERS * ENTRIES_PER_CLUSTER - 1)

(***************************************************************************)
(* Python helpers: slices, ljust, decode/rstrip, struct.pack/unpack.       *)
(***************************************************************************)
Min(a, b) == IF a <= b THEN a ELSE b
Max(a, b) == IF a >= b THEN a ELSE b
SetMax(S) == CHOOSE x \in S : \A y \in S : y <= x
SetMin(S) == CHOOSE x \in S : \A y \in S : x <= y

\* s[a:b] of Python (0-based, end exclusive, clamped to the length)
Slice(s, a, b) == SubSeq(s, a + 1, Min(b, Len(s)))

\* s[a:a+len(t)] = t for a bytearray s (same length replaced)
Splice(s, a, t) ==
    [i \in 1..Len(s) |-> IF i > a /\ i <= a + Len(t) THEN t[i - a] ELSE s[i]]

Zeros(n) == [i \in 1..n |-> 0]

\* s.ljust(n, '\x00')[:n]
Ljust(s, n) == [i \in 1..n |-> IF i <= Len(s) THEN s[i] ELSE 0]

\* bytes.decode('ascii', errors='ignore').rstrip('\x00')
IsAscii(b) == b < 128
DecodeName(bytes) ==
    LET txt == SelectSeq(bytes, IsAscii)
        nz  == {i \in 1..Len(txt) : txt[i] # 0}
    IN  IF nz = {} THEN << >> ELSE SubSeq(txt, 1, SetMax(nz))

RECURSIVE Pow256(_)
Pow256(n) == IF n = 0 THEN 1 ELSE 256 * Pow256(n - 1)

\* struct.pack('>I' / '>H', v): n bytes, big-endian
PackBE(v, n) == [i \in 1..n |-> (v \div Pow256(n - i)) % 256]

\* struct.unpack('>I' / '>H', bytes)[0]
RECURSIVE UnpackBE(_)
UnpackBE(bytes) ==
    IF Len(bytes) = 0 THEN 0
    ELSE UnpackBE(SubSeq(bytes, 1, Len(bytes) - 1)) * 256 + bytes[Len(bytes)]

\* struct.pack raises struct.error, bytearray item assignment ValueError
FitsByte(v) == v >= 0 /\ v <= 255
\* (the integers of the model stay below 2^31, so only the sign can fail)
FitsU32(v) == v >= 0

(***************************************************************************)
(* Strings used by the program and by the runs.                            *)
(***************************************************************************)
STR_users == <<117, 115, 101, 114, 115>>
STR_groups == <<103, 114, 111, 117, 112, 115>>
STR_root == <<114, 111, 111, 116>>
STR_admins == <<97, 100, 109, 105, 110, 115>>
STR_MYVOLUME == <<77, 89, 86, 79, 76, 85, 77, 69>>

\* datetime.now() of every call of one run: 2024-01-02 03:04:05
NOW == [year |-> 2024, month |-> 1, day |-> 2, hour |-> 3, minute |-> 4, second |-> 5]

\* pack_time: 3 low bytes of (hour << 12) | (minute << 6) | second
pack_time(dt) == Slice(PackBE(dt.hour * 4096 + dt.minute * 64 + dt.second, 4), 1, 4)

\* pack_date: ((year - 1980) << 9) | (month << 5) | day as 2 bytes
pack_date(dt) == PackBE((dt.year - 1980) * 512 + dt.month * 32 + dt.day, 2)

(***************************************************************************)
(* The disk image: d.fat[c] for the data clusters (the entries of the      *)
(* clusters below DATA_START_CLUSTER are never written and read as 0),     *)
(* d.data[c] the bytes of data cluster c, d.dir[s] the 41 bytes of         *)
(* directory slot s, d.max_uid / d.max_gid the superblock counters.        *)
(***************************************************************************)
FatEntry(d, c) == IF c \in DOMAIN d.fat THEN d.fat[c] ELSE 0

\* create_superblock: the bytes of cluster 0
Superblock(d) ==
    LET b0 == Zeros(CLUSTER_SIZE)
        b1 == Splice(b0, 0, Ljust(STR_MYVOLUME, 10))
        b2 == Splice(b1, 10, PackBE(DISK_SIZE \div SECTOR_SIZE, 4))
        b3 == Splice(b2, 14, PackBE(SECTOR_SIZE, 2))
        b4 == Splice(b3, 16, PackBE(CLUSTER_SIZE \div SECTOR_SIZE, 1))
        b5 == Splice(b4, 17, PackBE(1, 1))
        b6 == Splice(b5, 18, PackBE(FAT_CLUSTERS, 2))
        b7 == Splice(b6, 20, PackBE(TOTAL_CLUSTERS - (1 + FAT_CLUSTERS + ROOT_DIR_CLUSTERS), 4))
        b8 == Splice(b7, 24, PackBE(DATA_START_CLUSTER, 4))
        b9 == Splice(b8, 28, PackBE(ROOT_DIR_START_CLUSTER, 4))
        b10 == Splice(b9, OFFSET_SUPERBLOCK_MAX_UID, PackBE(d.max_uid, 2))
    IN  Splice(b10, OFFSET_SUPERBLOCK_MAX_GID, PackBE(d.max_gid, 2))

\* disk.seek(c * CLUSTER_SIZE); disk.read(n), n <= CLUSTER_SIZE
ReadCluster(d, c, n) ==
    IF c \in DOMAIN d.data THEN SubSeq(d.data[c], 1, n)
    ELSE IF c = 0 THEN SubSeq(Superblock(d), 1, n)
    ELSE Zeros(n)

\* format_disk before create_system_files: zeroed image, superblock, FAT, root directory
EmptyDisk ==
    [fat |-> [c \in DataClusters |-> 0],
     data |-> [c \in DataClusters |-> Zeros(CLUSTER_SIZE)],
     dir |-> [s \in DirSlots |-> Zeros(FILE_RECORD_SIZE)],
     max_uid |-> 0,
     max_gid |-> 0]

\* result of a call: the image afterwards, the exception raised ("none" if the
\* call returned), the returned value, the returned bytes, and whether the
\* call never returns
Outcome(d, exc, ret, bytes) ==
    [disk |-> d, exc |-> exc, ret |-> ret, bytes |-> bytes, hang |-> FALSE]
Returned(d, ret) == Outcome(d, "none", ret, << >>)
Raised(d, exc) == Outcome(d, exc, "none", << >>)
Hangs(d) == [disk |-> d, exc |-> "none", ret |-> "none", bytes |-> << >>, hang |-> TRUE]
Failed(o) == o.exc # "none" \/ o.hang

(***************************************************************************)
(* Root directory.                                                         *)
(***************************************************************************)
FirstByte(d, s) == d.dir[s][OFFSET_FILENAME + 1]
EntryName(entry) == DecodeName(Slice(entry, 0, FILENAME_SIZE))
EntrySize(entry) == UnpackBE(Slice(entry, OFFSET_FILE_SIZE, OFFSET_FILE_SIZE + 4))
EntryFirstCluster(entry) == UnpackBE(Slice(entry, OFFSET_FIRST_CLUSTER, OFFSET_FIRST_CLUSTER + 4))

\* find_file_entry: the slot of the first record named filename, scanning in
\* slot order, skipping tombstones and giving up at the first never-used slot;
\* NOT_FOUND models None
find_file_entry(d, filename) ==
    LET unused == {s \in DirSlots : FirstByte(d, s) = 0}
        limit  == IF unused = {} THEN ROOT_DIR_CLUSTERS * ENTRIES_PER_CLUSTER ELSE SetMin(unused)
        hits   == {s \in DirSlots : /\ s < limit
                                    /\ FirstByte(d, s) # TOMBSTONE
                                    /\ EntryName(d.dir[s]) = filename}
    IN  IF hits = {} THEN NOT_FOUND ELSE SetMin(hits)

\* find_free_directory_entry taking never-used slots only
find_free_directory_entry_unused_only(d) ==
    LET free == {s \in DirSlots : FirstByte(d, s) = 0}
    IN  IF free = {} THEN NOT_FOUND ELSE SetMin(free)

\* find_free_directory_entry: first slot whose first byte is 0x00 or 0xE5
find_free_directory_entry(d) ==
    LET free == {s \in DirSlots : FirstByte(d, s) = 0 \/ FirstByte(d, s) = TOMBSTONE}
    IN  IF free = {} THEN NOT_FOUND ELSE SetMin(free)

\* create_file_entry: the 41 bytes of a new record
create_file_entry(filename, uid, gid, attributes) ==
    LET e0 == Zeros(FILE_RECORD_SIZE)
        e1 == Splice(e0, OFFSET_FILENAME, Ljust(filename, FILENAME_SIZE))
        e2 == Splice(e1, OFFSET_ATTRIBUTE, <<attributes>>)
        e3 == Splice(e2, OFFSET_CREATE_TIME, pack_time(NOW))
        e4 == Splice(e3, OFFSET_MODIFY_TIME, pack_time(NOW))
        e5 == Splice(e4, OFFSET_MODIFY_DATE, pack_date(NOW))
        e6 == Splice(e5, OFFSET_UID, <<uid>>)
        e7 == Splice(e6, OFFSET_GID, <<gid>>)
        e8 == Splice(e7, OFFSET_PERMISSIONS, PackBE(DEFAULT_PERMISSIONS, 2))
        e9 == Splice(e8, OFFSET_FILE_SIZE, PackBE(0, 4))
    IN  Splice(e9, OFFSET_FIRST_CLUSTER, PackBE(0, 4))

\* file_entry[offset] = v for a bytearray: TypeError for None, ValueError
\* outside 0..255
ByteStoreError(v) ==
    IF v = NONE THEN "TypeError" ELSE IF ~FitsByte(v) THEN "ValueError" ELSE "none"

\* create_file; create_file_entry stores attributes, then uid, then gid, and
\* the first of them that cannot be stored decides the exception
create_file(d, filename, uid, gid, attributes) ==
    IF Len(filename) > FILENAME_SIZE THEN Raised(d, "ValueError")
    ELSE IF find_file_entry(d, filename) # NOT_FOUND THEN Raised(d, "ValueError")
    ELSE IF find_free_directory_entry(d) = NOT_FOUND THEN Raised(d, "Exception")
    ELSE IF ByteStoreError(attributes) # "none" THEN Raised(d, ByteStoreError(attributes))
    ELSE IF ByteStoreError(uid) # "none" THEN Raised(d, ByteStoreError(uid))
    ELSE IF ByteStoreError(gid) # "none" THEN Raised(d, ByteStoreError(gid))
    ELSE Returned([d EXCEPT !.dir[find_free_directory_entry(d)] =
                                create_file_entry(filename, uid, gid, attributes)], "True")

(***************************************************************************)
(* FAT and data clusters.                                                  *)
(***************************************************************************)
\* is_cluster_free
is_cluster_free(d, cluster) == FatEntry(d, cluster) = 0

\* find_free_cluster: first free cluster of the swept range, NOT_FOUND (-1) if none
find_free_cluster(d) ==
    LET free == {c \in DATA_START_CLUSTER .. (DATA_START_CLUSTER + FREE_SWEEP - 1) :
                    is_cluster_free(d, c)}
    IN  IF free = {} THEN NOT_FOUND ELSE SetMin(free)

\* mark_cluster_used: FAT[cluster] = next_cluster (the caller checks FitsU32)
mark_cluster_used(d, cluster, next_cluster) ==
    [d EXCEPT !.fat[cluster] = next_cluster]

\* disk.seek(cluster * CLUSTER_SIZE); disk.write(chunk)
WriteCluster(d, cluster, chunk) ==
    [d EXCEPT !.data[cluster] = Splice(@, 0, chunk)]

\* read_file_data: follow the chain until END_OF_CHAIN or file_size bytes
RECURSIVE read_file_data_loop(_, _, _, _)
read_file_data_loop(d, current_cluster, file_size, data) ==
    IF current_cluster # END_OF_CHAIN /\ Len(data) < file_size
    THEN read_file_data_loop(d, FatEntry(d, current_cluster), file_size,
             data \o ReadCluster(d, current_cluster, Min(CLUSTER_SIZE, file_size - Len(data))))
    ELSE data
read_file_data(d, first_cluster, file_size) ==
    read_file_data_loop(d, first_cluster, file_size, << >>)

\* write_file_data: one chunk per iteration; the next cluster is looked up
\* before the current one is marked in the FAT
RECURSIVE write_file_data_loop(_, _, _, _, _)
write_file_data_loop(d, current_cluster, data, file_size, bytes_written) ==
    IF bytes_written >= file_size THEN Returned(d, "True")
    ELSE
      LET bytes_to_write == Min(CLUSTER_SIZE, file_size - bytes_written)
          chunk == Slice(data, bytes_written, bytes_written + bytes_to_write)
          d1 == WriteCluster(d, current_cluster, chunk)
          written == bytes_written + Len(chunk)
          next_cluster == find_free_cluster(d1)
      IN  IF written < file_size
          THEN IF next_cluster = 0 THEN Returned(d1, "False")
               ELSE IF ~FitsU32(next_cluster) THEN Raised(d1, "struct.error")
               ELSE write_file_data_loop(mark_cluster_used(d1, current_cluster, next_cluster),
                                         next_cluster, data, file_size, written)
          ELSE Returned(mark_cluster_used(d1, current_cluster, END_OF_CHAIN), "True")
write_file_data(d, first_cluster, data, file_size) ==
    write_file_data_loop(d, first_cluster, data, file_size, 0)

\* free_cluster_chain: zero every entry of the chain; the walk ends only at
\* END_OF_CHAIN, so a chain that runs into a free entry never returns
\* (FAT[0] is 0 and is read and rewritten forever)
RECURSIVE free_cluster_chain(_, _)
free_cluster_chain(d, current_cluster) ==
    IF current_cluster = END_OF_CHAIN THEN Returned(d, "None")
    ELSE IF current_cluster \notin DOMAIN d.fat THEN Hangs(d)
    ELSE free_cluster_chain([d EXCEPT !.fat[current_cluster] = 0], d.fat[current_cluster])

\* update_file_metadata
update_file_metadata(d, filename, new_size, first_cluster) ==
    LET s  == find_file_entry(d, filename)
        e0 == d.dir[s]
        e1 == Splice(e0, OFFSET_FILE_SIZE, PackBE(new_size, 4))
        e2 == IF first_cluster # 0
              THEN Splice(e1, OFFSET_FIRST_CLUSTER, PackBE(first_cluster, 4)) ELSE e1
        e3 == Splice(e2, OFFSET_MODIFY_TIME, pack_time(NOW))
        e4 == Splice(e3, OFFSET_MODIFY_DATE, pack_date(NOW))
    IN  IF s = NOT_FOUND THEN Returned(d, "False")
        ELSE Returned([d EXCEPT !.dir[s] = e4], "True")

(***************************************************************************)
(* File operations.                                                        *)
(***************************************************************************)
\* read_file, once the record has been looked up (s is its slot)
read_file_entry(d, s) ==
    IF s = NOT_FOUND THEN Raised(d, "FileNotFoundError")
    ELSE IF EntryFirstCluster(d.dir[s]) = 0 \/ EntrySize(d.dir[s]) = 0
         THEN Outcome(d, "none", "bytes", << >>)
    ELSE Outcome(d, "none", "bytes",
                 read_file_data(d, EntryFirstCluster(d.dir[s]), EntrySize(d.dir[s])))

\* read_file
read_file(d, filename) == read_file_entry(d, find_file_entry(d, filename))

\* delete_file: the first byte of the record becomes 0xE5
Tombstoned(d, s) == [d EXCEPT !.dir[s] = Splice(@, 0, <<TOMBSTONE>>)]

\* delete_file, after free_cluster_chain
delete_file_freed(freed) == IF freed.hang THEN freed ELSE Returned(freed.disk, "True")

\* delete_file, once the record has been looked up (s is its slot)
delete_file_entry(d, s) ==
    IF s = NOT_FOUND THEN Raised(d, "FileNotFoundError")
    ELSE IF EntryFirstCluster(d.dir[s]) # 0
         THEN delete_file_freed(free_cluster_chain(Tombstoned(d, s), EntryFirstCluster(d.dir[s])))
    ELSE Returned(Tombstoned(d, s), "True")

\* delete_file
delete_file(d, filename) == delete_file_entry(d, find_file_entry(d, filename))

\* write_file, after write_file_data: the record is updated if the data was written
write_file_written(written, filename, new_size, first_cluster) ==
    IF Failed(written) THEN written
    ELSE IF written.ret = "True"
         THEN Returned(update_file_metadata(written.disk, filename, new_size, first_cluster).disk,
                       "True")
    ELSE Returned(written.disk, "False")

\* write_file, once the content and the first cluster are known
write_file_store(d, filename, content, first_cluster) ==
    IF first_cluster = NOT_FOUND THEN Raised(d, "Exception")
    ELSE write_file_written(write_file_data(d, first_cluster, content, Len(content)),
                            filename, Len(content), first_cluster)

\* write_file, once the record is there (s is its slot): the old content is
\* prepended when appending, a first cluster is taken if the record has none
write_file_entry(d, filename, content_bytes, append, s) ==
    write_file_store(d, filename,
        IF append /\ EntryFirstCluster(d.dir[s]) # 0
        THEN read_file_data(d, EntryFirstCluster(d.dir[s]), EntrySize(d.dir[s])) \o content_bytes
        ELSE content_bytes,
        IF EntryFirstCluster(d.dir[s]) = 0 THEN find_free_cluster(d)
        ELSE EntryFirstCluster(d.dir[s]))

\* write_file, after the create_file of a missing record
write_file_created(created, filename, content_bytes, append) ==
    IF Failed(created) THEN created
    ELSE write_file_entry(created.disk, filename, content_bytes, append,
                          find_file_entry(created.disk, filename))

\* write_file, after the overwrite step: look the record up, creating it if
\* it is missing
write_file_body(d, filename, content_bytes, append, uid, gid, attributes) ==
    IF find_file_entry(d, filename) = NOT_FOUND
    THEN IF uid = NONE \/ gid = NONE THEN Raised(d, "ValueError")
         ELSE write_file_created(create_file(d, filename, uid, gid, attributes),
                                 filename, content_bytes, append)
    ELSE write_file_entry(d, filename, content_bytes, append, find_file_entry(d, filename))

\* write_file with overwrite, after its create_file
write_file_recreated(created, filename, content_bytes, append, uid, gid, attributes) ==
    IF Failed(created) THEN created
    ELSE write_file_body(created.disk, filename, content_bytes, append, uid, gid, attributes)

\* write_file with overwrite, after its delete_file
write_file_deleted(deleted, filename, content_bytes, append, uid, gid, attributes) ==
    IF Failed(deleted) THEN deleted
    ELSE write_file_recreated(create_file(deleted.disk, filename, uid, gid, attributes),
                              filename, content_bytes, append, uid, gid, attributes)

\* write_file
write_file(d, filename, content_bytes, append, overwrite, uid, gid, attributes) ==
    IF overwrite
    THEN write_file_deleted(delete_file(d, filename),
                            filename, content_bytes, append, uid, gid, attributes)
    ELSE write_file_body(d, filename, content_bytes, append, uid, gid, attributes)

\* rename_file
rename_file(d, old_filename, new_filename) ==
    LET s == find_file_entry(d, old_filename)
    IN  IF Len(new_filename) > FILENAME_SIZE THEN Raised(d, "ValueError")
        ELSE IF s = NOT_FOUND THEN Raised(d, "FileNotFoundError")
        ELSE IF find_file_entry(d, new_filename) # NOT_FOUND THEN Raised(d, "ValueError")
        ELSE Returned([d EXCEPT !.dir[s] = Splice(@, OFFSET_FILENAME,
                                                   Ljust(new_filename, FILENAME_SIZE))], "True")

(***************************************************************************)
(* Identity store: the reserved files users and groups.                    *)
(***************************************************************************)
\* hashlib.sha256(password.encode()).digest(): 32 elements, modelled as a
\* function of the password that never yields the all-zero digest and
\* keeps passwords of up to 93 characters apart: the length, then in
\* element i the characters i - 1, i + 30 and i + 61 of the password
sha256(password) ==
    [i \in 1..PASSWORD_SIZE |->
        IF i = 1 THEN 1 + Len(password)
        ELSE (IF i - 1 <= Len(password) THEN password[i - 1] ELSE 0)
             + 256 * (IF i + 30 <= Len(password) THEN password[i + 30] ELSE 0)
             + 65536 * (IF i + 61 <= Len(password) THEN password[i + 61] ELSE 0)]

\* one iteration of the loop of read_users_file
ParseUser(user_data) ==
    [login |-> DecodeName(Slice(user_data, OFFSET_USER_LOGIN, OFFSET_USER_LOGIN + LOGIN_SIZE)),
     uid |-> user_data[OFFSET_USER_UID + 1],
     gid |-> user_data[OFFSET_USER_GID + 1],
     password_hash |-> Slice(user_data, OFFSET_USER_PASSWORD, OFFSET_USER_PASSWORD + PASSWORD_SIZE)]

HasLogin(user) == user.login # << >>

\* the loop of read_users_file over what read_file returned: whole 64-byte
\* records, those with an empty login skipped; [] when the file could not be read
ParseUsers(r) ==
    IF Failed(r) THEN << >>
    ELSE SelectSeq([k \in 1..(Len(r.bytes) \div USER_RECORD_SIZE) |->
                       ParseUser(Slice(r.bytes, (k - 1) * USER_RECORD_SIZE, k * USER_RECORD_SIZE))],
                   HasLogin)

\* read_users_file
read_users_file(d) == ParseUsers(read_file(d, STR_users))

\* the record write_users_file builds for one user
UserRecord(user) ==
    LET r0 == Zeros(USER_RECORD_SIZE)
        r1 == Splice(r0, OFFSET_USER_LOGIN, Ljust(user.login, LOGIN_SIZE))
        r2 == Splice(r1, OFFSET_USER_UID, <<user.uid>>)
        r3 == Splice(r2, OFFSET_USER_GID, <<user.gid>>)
    IN  Splice(r3, OFFSET_USER_PASSWORD, Ljust(user.password_hash, PASSWORD_SIZE))

RECURSIVE Concat(_)
Concat(seqs) == IF seqs = << >> THEN << >> ELSE Head(seqs) \o Concat(Tail(seqs))

\* a call inside try/except, or whose result is not looked at: the caller
\* goes on and returns ret (unless the call never returns)
Caught(w, ret) == IF w.hang THEN w ELSE Returned(w.disk, ret)

\* write_users_file: serialise and rewrite the file with overwrite=True; every
\* exception is caught and only printed
write_users_file(d, users_data) ==
    IF \E k \in 1..Len(users_data) : ~FitsByte(users_data[k].uid) \/ ~FitsByte(users_data[k].gid)
    THEN Returned(d, "None")
    ELSE Caught(write_file(d, STR_users,
                           Concat([k \in 1..Len(users_data) |-> UserRecord(users_data[k])]),
                           FALSE, TRUE, 0, 0, ATTR_DEFAULT),
                "None")

\* one iteration of the loop of read_groups_file
ParseGroup(group_data) ==
    [name |-> DecodeName(Slice(group_data, OFFSET_GROUP_NAME, OFFSET_GROUP_NAME + GROUP_NAME_SIZE)),
     gid |-> group_data[OFFSET_GROUP_GID + 1]]

HasName(group) == group.name # << >>

\* the loop of read_groups_file over what read_file returned
ParseGroups(r) ==
    IF Failed(r) THEN << >>
    ELSE SelectSeq([k \in 1..(Len(r.bytes) \div GROUP_RECORD_SIZE) |->
                       ParseGroup(Slice(r.bytes, (k - 1) * GROUP_RECORD_SIZE, k * GROUP_RECORD_SIZE))],
                   HasName)

\* read_groups_file
read_groups_file(d) == ParseGroups(read_file(d, STR_groups))

\* the loop of is_first_run: is there a record of root with a non-zero hash
RootHasPassword(users) ==
    \E k \in 1..Len(users) :
        users[k].login = STR_root /\ users[k].password_hash # Zeros(PASSWORD_SIZE)

\* is_first_run: False only if a record with login root has a non-zero hash
is_first_run(d) == ~RootHasPassword(read_users_file(d))

\* index of the first user with this login, 0 if there is none
UserIndex(users, login) ==
    LET hits == {k \in 1..Len(users) : users[k].login = login}
    IN  IF hits = {} THEN 0 ELSE SetMin(hits)

\* set_password, once the users have been read
set_password_users(d, users, username, password) ==
    IF UserIndex(users, username) = 0 THEN Returned(d, "False")
    ELSE Caught(write_users_file(d, [users EXCEPT ![UserIndex(users, username)].password_hash =
                                                      sha256(password)]),
                "True")

\* set_password
set_password(d, username, password) ==
    set_password_users(d, read_users_file(d), username, password)

\* verify_password / verify_user_password, once the users have been read
verify_password_users(users, login, password) ==
    /\ UserIndex(users, login) # 0
    /\ users[UserIndex(users, login)].password_hash = sha256(password)

\* verify_password / verify_user_password
verify_password(d, login, password) ==
    verify_password_users(read_users_file(d), login, password)

\* get_max_uid / set_max_uid / get_max_gid / set_max_gid: the field of the
\* superblock is written with struct.pack('>H', ...), which raises
\* struct.error outside 0..65535 and leaves the image as it was
get_max_uid(d) == d.max_uid
set_max_uid(d, uid) ==
    IF uid < 0 \/ uid > 65535 THEN Raised(d, "struct.error")
    ELSE Returned([d EXCEPT !.max_uid = uid], "None")
get_max_gid(d) == d.max_gid
set_max_gid(d, gid) ==
    IF gid < 0 \/ gid > 65535 THEN Raised(d, "struct.error")
    ELSE Returned([d EXCEPT !.max_gid = gid], "None")

\* add_user, once the users have been read (uid = NONE models uid=None); an
\* exception of set_max_uid leaves add_user
add_user_users(d, users, login, password, uid, gid) ==
    LET new_uid == IF uid = NONE THEN get_max_uid(d) + 1 ELSE uid
        numbered == IF uid = NONE THEN set_max_uid(d, new_uid) ELSE Returned(d, "None")
        user == [login |-> login, uid |-> new_uid, gid |-> gid,
                 password_hash |-> sha256(password)]
    IN  IF UserIndex(users, login) # 0 THEN Raised(d, "ValueError")
        ELSE IF Failed(numbered) THEN numbered
        ELSE Caught(write_users_file(numbered.disk, Append(users, user)), "True")

\* add_user
add_user(d, login, password, uid, gid) ==
    add_user_users(d, read_users_file(d), login, password, uid, gid)

\* add_group, after its write_file (whose returned value is not looked at)
add_group_written(w) ==
    IF w.hang THEN w
    ELSE IF w.exc # "none" THEN Returned(w.disk, "False")
    ELSE Returned(w.disk, "True")

\* add_group, after its read_file
add_group_existing(existing, group_data) ==
    IF Failed(existing) THEN Returned(existing.disk, "False")
    ELSE add_group_written(write_file(existing.disk, STR_groups, existing.bytes \o group_data,
                                      FALSE, TRUE, 0, 0, ATTR_DEFAULT))

\* add_group, once the groups have been read (gid = NONE models gid=None)
add_group_groups(d, groups, group_name, gid) ==
    LET new_gid == IF gid = NONE THEN get_max_gid(d) + 1 ELSE gid
        numbered == IF gid = NONE THEN set_max_gid(d, new_gid) ELSE Returned(d, "None")
        d1 == numbered.disk
        group_data == Splice(Splice(Zeros(GROUP_RECORD_SIZE), OFFSET_GROUP_GID, <<new_gid>>),
                             OFFSET_GROUP_NAME, Ljust(group_name, GROUP_NAME_SIZE))
    IN  IF \E k \in 1..Len(groups) : groups[k].name = group_name THEN Returned(d, "False")
        ELSE IF Failed(numbered) THEN Returned(d, "False")
        ELSE IF ~FitsByte(new_gid) THEN Returned(d1, "False")
        ELSE add_group_existing(read_file(d1, STR_groups), group_data)

\* add_group (the second definition of the class, which is the one in
\* effect); every exception is caught and turned into False
add_group(d, group_name, gid) ==
    add_group_groups(d, read_groups_file(d), group_name, gid)

\* get_regular_users
IsRegular(user) == user.uid # 0
get_regular_users(d) == SelectSeq(read_users_file(d), IsRegular)

\* get_disk_usage: every entry of the FAT that is not 0 counts as a used
\* cluster (the entries of the clusters before the data region are always 0)
get_disk_usage(d) ==
    [total |-> FAT_CLUSTERS * (CLUSTER_SIZE \div 4) * CLUSTER_SIZE,
     used |-> Cardinality({c \in DOMAIN d.fat : d.fat[c] # 0}) * CLUSTER_SIZE,
     free |-> (FAT_CLUSTERS * (CLUSTER_SIZE \div 4)
                 - Cardinality({c \in DOMAIN d.fat : d.fat[c] # 0})) * CLUSTER_SIZE]

\* list_directory: the names listed (tombstones skipped, the scan of a
\* directory cluster stops at its first never-used slot, users and groups
\* left out)
list_directory(d) ==
    {EntryName(d.dir[s]) : s \in
        {s \in DirSlots :
            /\ ~ \E t \in DirSlots : /\ t \div ENTRIES_PER_CLUSTER = s \div ENTRIES_PER_CLUSTER
                                     /\ t <= s
                                     /\ FirstByte(d, t) = 0
            /\ FirstByte(d, s) # TOMBSTONE
            /\ EntryName(d.dir[s]) \notin {STR_users, STR_groups}
            /\ EntryName(d.dir[s]) # << >>}}

(***************************************************************************)
(* Formatting.                                                             *)
(***************************************************************************)
\* write_initial_users / write_initial_groups: an exception of write_file is
\* caught and turned into False
InitialWritten(w) == IF w.exc # "none" THEN Returned(w.disk, "False") ELSE w

\* write_initial_users
write_initial_users(d) ==
    InitialWritten(write_file(d, STR_users,
        UserRecord([login |-> STR_root, uid |-> 0, gid |-> 0,
                    password_hash |-> Zeros(PASSWORD_SIZE)]),
        FALSE, TRUE, 0, 0, ATTR_DEFAULT))

\* write_initial_groups
write_initial_groups(d) ==
    InitialWritten(write_file(d, STR_groups,
        Splice(Splice(Zeros(GROUP_RECORD_SIZE), OFFSET_GROUP_GID, <<0>>),
               OFFSET_GROUP_NAME, Ljust(STR_root, GROUP_NAME_SIZE)),
        FALSE, TRUE, 0, 0, ATTR_DEFAULT))

\* create_system_files, after write_initial_users
create_system_files_users(w1) ==
    IF w1.ret # "True" THEN w1.disk ELSE write_initial_groups(w1.disk).disk

\* create_system_files, after create_file("groups")
create_system_files_groups(c2) ==
    IF Failed(c2) THEN c2.disk ELSE create_system_files_users(write_initial_users(c2.disk))

\* create_system_files, after create_file("users")
create_system_files_first(c1) ==
    IF Failed(c1) THEN c1.disk
    ELSE create_system_files_groups(
             create_file(c1.disk, STR_groups, 0, 0, ATTR_SYSTEM + ATTR_HIDDEN + ATTR_READ_ONLY))

\* create_system_files
create_system_files(d) ==
    create_system_files_first(
        create_file(d, STR_users, 0, 0, ATTR_SYSTEM + ATTR_HIDDEN + ATTR_READ_ONLY))

\* format_disk: the image after formatting
format_disk == create_system_files(EmptyDisk)

(***************************************************************************)
(* Scheduler (scheduler/multilevelFeedbackQueueScheduler.py).  A scheduler *)
(* is a record s; s.all_processes[pid] is the Process object with that pid *)
(* (pids are handed out from 1 in the order of all_processes), and 0       *)
(* stands for None where a process is expected.  Times are whole numbers   *)
(* of time units.  s.scheduling_events holds the events appended since the *)
(* start of the call in progress.                                          *)
(***************************************************************************)
QUANTUM_0 == 2
QUANTUM_1 == 4
NO_PROCESS == 0

\* quantum_times with the quanta of queues 0 and 1 exchanged
quantum_times_exchanged(queue_idx) == IF queue_idx = 0 THEN QUANTUM_1 ELSE QUANTUM_0

\* quantum_times[queue_idx] for the round-robin queues 0 and 1
quantum_times(queue_idx) == IF queue_idx = 0 THEN QUANTUM_0 ELSE QUANTUM_1

\* Process(...) and __post_init__
Process(pid, burst_time, arrival_time, relative_priority, priority_type) ==
    [pid |-> pid, burst_time |-> burst_time, arrival_time |-> arrival_time,
     relative_priority |-> relative_priority, dynamic_priority |-> relative_priority,
     priority_type |-> priority_type, remaining_time |-> burst_time, state |-> "READY",
     start_time |-> NONE, completion_time |-> NONE, current_queue |-> 0,
     quantum_used |-> 0, last_cpu_burst |-> 0, total_cpu_time |-> 0,
     waiting_time |-> 0, times_executed |-> 0]

\* MultilevelFeedbackQueueScheduler.__init__
NewScheduler ==
    [queues |-> [q \in 0..2 |-> << >>],
     absolute_queue |-> << >>,
     all_processes |-> << >>,
     current_time |-> 0,
     current_process |-> NO_PROCESS,
     pid_counter |-> 1,
     last_update_time |-> 0,
     total_context_switches |-> 0,
     scheduling_events |-> << >>]

\* scheduling_events.append(...)
Event(s, event, process, other) ==
    [s EXCEPT !.scheduling_events =
                  Append(@, [event |-> event, process |-> process, other |-> other])]

\* ProcessQueue.put: the FCFS queue holds the process, a round-robin queue the
\* tuple (dynamic_priority at this moment, arrival_time, process)
put(s, queue_id, pid) ==
    [s EXCEPT !.all_processes[pid].current_queue = queue_id,
              !.all_processes[pid].state = "READY",
              !.queues[queue_id] =
                  Append(@, IF queue_id = 2 THEN [pid |-> pid]
                            ELSE [priority_key |-> s.all_processes[pid].dynamic_priority,
                                  arrival_time |-> s.all_processes[pid].arrival_time,
                                  pid |-> pid])]

\* the order of the sort reversed: the largest key first
ItemBefore_reversed(x, y) ==
    \/ x.priority_key > y.priority_key
    \/ x.priority_key = y.priority_key /\ x.arrival_time > y.arrival_time

\* items.sort(key=lambda x: (x[0], x[1])): a stable sort
ItemBefore(x, y) ==
    \/ x.priority_key < y.priority_key
    \/ x.priority_key = y.priority_key /\ x.arrival_time < y.arrival_time
InsertSorted(sorted, x) ==
    LET k == Cardinality({i \in 1..Len(sorted) : ~ItemBefore(x, sorted[i])})
    IN  SubSeq(sorted, 1, k) \o <<x>> \o SubSeq(sorted, k + 1, Len(sorted))
RECURSIVE SortItems(_)
SortItems(items) ==
    IF items = << >> THEN << >>
    ELSE InsertSorted(SortItems(SubSeq(items, 1, Len(items) - 1)), items[Len(items)])

\* ProcessQueue.get: the scheduler afterwards and the process returned; a
\* round-robin queue is sorted, its first item is taken and the others are put
\* back in sorted order
get(s, queue_id) ==
    IF s.queues[queue_id] = << >> THEN [sched |-> s, process |-> NO_PROCESS]
    ELSE IF queue_id = 2
         THEN [sched |-> [s EXCEPT !.queues[queue_id] = Tail(@)],
               process |-> Head(s.queues[queue_id]).pid]
    ELSE [sched |-> [s EXCEPT !.queues[queue_id] = Tail(SortItems(@))],
          process |-> Head(SortItems(s.queues[queue_id])).pid]

\* update_dynamic_priorities without the bounds 1 and 10
update_dynamic_priorities_unbounded(s) ==
    IF s.current_time - s.last_update_time >= 1
    THEN [s EXCEPT !.all_processes =
                       [i \in DOMAIN @ |->
                           IF @[i].state = "READY"
                           THEN [@[i] EXCEPT !.dynamic_priority = @ - 1]
                           ELSE IF @[i].state = "RUNNING"
                           THEN [@[i] EXCEPT !.dynamic_priority = @ + 1]
                           ELSE @[i]],
                   !.last_update_time = s.current_time]
    ELSE s

\* update_dynamic_priorities
update_dynamic_priorities(s) ==
    IF s.current_time - s.last_update_time >= 1
    THEN [s EXCEPT !.all_processes =
                       [i \in DOMAIN @ |->
                           IF @[i].state = "READY"
                           THEN [@[i] EXCEPT !.dynamic_priority = Max(1, @ - 1)]
                           ELSE IF @[i].state = "RUNNING"
                           THEN [@[i] EXCEPT !.dynamic_priority = Min(10, @ + 1)]
                           ELSE @[i]],
                   !.last_update_time = s.current_time]
    ELSE s

\* calculate_priority: stores the priority of a DYNAMIC process
calculate_priority(s, pid) ==
    LET process == s.all_processes[pid]
        waiting_boost == IF process.state = "READY" THEN process.waiting_time \div 2 ELSE 0
        execution_penalty == process.total_cpu_time \div 3
    IN  IF process.priority_type = "DYNAMIC"
        THEN [s EXCEPT !.all_processes[pid].dynamic_priority =
                 Max(1, Min(10, process.relative_priority - waiting_boost + execution_penalty))]
        ELSE s

\* add_process
add_process(s, burst_time, arrival_time, relative_priority, priority_type) ==
    LET pid == s.pid_counter
        s1 == [s EXCEPT !.all_processes =
                            Append(@, Process(pid, burst_time,
                                              IF arrival_time < s.current_time
                                              THEN s.current_time ELSE arrival_time,
                                              relative_priority, priority_type)),
                        !.pid_counter = @ + 1]
    IN  Event(IF priority_type = "ABSOLUTE"
              THEN [s1 EXCEPT !.absolute_queue = Append(@, pid)]
              ELSE put(s1, 0, pid),
              "add", pid, NO_PROCESS)

\* get_next_process, after a queue's get_nowait
get_next_taken(r) ==
    [sched |-> calculate_priority(r.sched, r.process), process |-> r.process]

\* get_next_process with the queues scanned from the last to the first
get_next_process_last_queue_first(s) ==
    IF s.absolute_queue # << >> THEN [sched |-> s, process |-> Head(s.absolute_queue)]
    ELSE IF s.queues[2] # << >> THEN get_next_taken(get(s, 2))
    ELSE IF s.queues[1] # << >> THEN get_next_taken(get(s, 1))
    ELSE IF s.queues[0] # << >> THEN get_next_taken(get(s, 0))
    ELSE [sched |-> s, process |-> NO_PROCESS]

\* get_next_process: the head of the absolute queue (which stays in the
\* queue), else a process taken from the first non-empty queue
get_next_process(s) ==
    IF s.absolute_queue # << >> THEN [sched |-> s, process |-> Head(s.absolute_queue)]
    ELSE IF s.queues[0] # << >> THEN get_next_taken(get(s, 0))
    ELSE IF s.queues[1] # << >> THEN get_next_taken(get(s, 1))
    ELSE IF s.queues[2] # << >> THEN get_next_taken(get(s, 2))
    ELSE [sched |-> s, process |-> NO_PROCESS]

\* preempt_current_process: the preempted process goes back to its queue
Requeue(s, pid) ==
    IF s.all_processes[pid].priority_type = "ABSOLUTE"
    THEN [s EXCEPT !.absolute_queue = Append(@, pid)]
    ELSE put(s, s.all_processes[pid].current_queue, pid)

\* preempt_current_process
preempt_current_process(s, new_process) ==
    IF s.current_process = NO_PROCESS THEN s
    ELSE Event([Requeue([s EXCEPT !.all_processes[s.current_process].state = "READY",
                                  !.all_processes[s.current_process].times_executed = @ + 1,
                                  !.all_processes[s.current_process].quantum_used = 0],
                        s.current_process)
                   EXCEPT !.total_context_switches = @ + 1],
               "preempt", s.current_process, new_process)

\* execute_time_slice: waiting_time of every READY process grows by the slice
add_waiting_time(s, time_slice) ==
    [s EXCEPT !.all_processes =
                  [i \in DOMAIN @ |->
                      IF @[i].state = "READY"
                      THEN [@[i] EXCEPT !.waiting_time = @ + time_slice] ELSE @[i]]]

\* start_absolute with the popleft() forgotten (as get_next_process leaves the
\* head in the queue)
start_absolute_not_popped(s) ==
    Event([s EXCEPT !.current_process = Head(s.absolute_queue),
                    !.all_processes[Head(s.absolute_queue)].state = "RUNNING",
                    !.all_processes[Head(s.absolute_queue)].start_time =
                        IF @ = NONE THEN s.current_time ELSE @,
                    !.total_context_switches = @ + 1],
          "start_absolute", Head(s.absolute_queue), NO_PROCESS)

\* execute_time_slice, after preempt_current_process: the head of the absolute
\* queue is popped and starts running
start_absolute(s) ==
    Event([s EXCEPT !.absolute_queue = Tail(@),
                    !.current_process = Head(s.absolute_queue),
                    !.all_processes[Head(s.absolute_queue)].state = "RUNNING",
                    !.all_processes[Head(s.absolute_queue)].start_time =
                        IF @ = NONE THEN s.current_time ELSE @,
                    !.total_context_switches = @ + 1],
          "start_absolute", Head(s.absolute_queue), NO_PROCESS)

\* execute_time_slice: preemption of a non-absolute current process by the
\* head of the absolute queue
preempt_for_absolute(s) ==
    IF /\ s.absolute_queue # << >>
       /\ s.current_process # NO_PROCESS
       /\ Head(s.absolute_queue) # s.current_process
       /\ s.all_processes[s.current_process].priority_type # "ABSOLUTE"
    THEN start_absolute(preempt_current_process(s, Head(s.absolute_queue)))
    ELSE s

\* execute_time_slice: the process get_next_process returned starts running
start_next(r) ==
    IF r.process = NO_PROCESS THEN r.sched
    ELSE Event([r.sched EXCEPT
                    !.current_process = r.process,
                    !.all_processes[r.process].state = "RUNNING",
                    !.all_processes[r.process].start_time =
                        IF @ = NONE THEN r.sched.current_time ELSE @,
                    !.all_processes[r.process].dynamic_priority =
                        IF r.sched.all_processes[r.process].priority_type = "DYNAMIC"
                        THEN Max(1, @ - 2) ELSE @,
                    !.total_context_switches = @ + 1],
               "start", r.process, NO_PROCESS)

\* execute_time_slice: a process is dispatched if there is no current process
dispatch(s) ==
    IF s.current_process # NO_PROCESS THEN s ELSE start_next(get_next_process(s))

\* move_to_next_queue with the reset of quantum_used forgotten
move_to_next_queue_quantum_kept(s) ==
    IF s.current_process = NO_PROCESS THEN s
    ELSE IF s.all_processes[s.current_process].priority_type = "ABSOLUTE" THEN s
    ELSE IF s.all_processes[s.current_process].current_queue < 2
         THEN [Event(put([s EXCEPT !.all_processes[s.current_process].times_executed = @ + 1],
                         s.all_processes[s.current_process].current_queue + 1,
                         s.current_process),
                     "move", s.current_process,
                     s.all_processes[s.current_process].current_queue + 1)
                  EXCEPT !.current_process = NO_PROCESS,
                         !.total_context_switches = @ + 1]
    ELSE s

\* move_to_next_queue
move_to_next_queue(s) ==
    IF s.current_process = NO_PROCESS THEN s
    ELSE IF s.all_processes[s.current_process].priority_type = "ABSOLUTE" THEN s
    ELSE IF s.all_processes[s.current_process].current_queue < 2
         THEN [Event(put([s EXCEPT !.all_processes[s.current_process].quantum_used = 0,
                                   !.all_processes[s.current_process].times_executed = @ + 1],
                         s.all_processes[s.current_process].current_queue + 1,
                         s.current_process),
                     "move", s.current_process,
                     s.all_processes[s.current_process].current_queue + 1)
                  EXCEPT !.current_process = NO_PROCESS,
                         !.total_context_switches = @ + 1]
    ELSE s

\* exec_time with the remaining time of the process left out of the minimum
exec_time_remaining_ignored(process, time_slice) ==
    IF process.priority_type = "ABSOLUTE" \/ process.current_queue >= 2
    THEN time_slice
    ELSE Min(time_slice, quantum_times(process.current_queue) - process.quantum_used)

\* execute_time_slice: min(time_slice, time_left_in_quantum, remaining_time);
\* the quantum of an ABSOLUTE process and of queue 2 is infinite
exec_time(process, time_slice) ==
    IF process.priority_type = "ABSOLUTE" \/ process.current_queue >= 2
    THEN Min(time_slice, process.remaining_time)
    ELSE Min(Min(time_slice, quantum_times(process.current_queue) - process.quantum_used),
             process.remaining_time)

\* execute_time_slice: the current process runs for exec_time
run_for(s, t) ==
    [s EXCEPT !.current_time = @ + t,
              !.all_processes[s.current_process].remaining_time = @ - t,
              !.all_processes[s.current_process].quantum_used = @ + t,
              !.all_processes[s.current_process].total_cpu_time = @ + t,
              !.all_processes[s.current_process].last_cpu_burst = t]

\* execute_time_slice: quantum expiry in queues 0 and 1 (a DYNAMIC process
\* loses one level of priority first)
quantum_expired(s) ==
    move_to_next_queue(
        IF s.all_processes[s.current_process].priority_type = "DYNAMIC"
        THEN [s EXCEPT !.all_processes[s.current_process].dynamic_priority = Min(10, @ + 1)]
        ELSE s)

\* execute_time_slice, after the process has run: termination, else quantum expiry
end_of_slice(s) ==
    IF s.all_processes[s.current_process].remaining_time <= 0
    THEN [Event([s EXCEPT !.all_processes[s.current_process].state = "TERMINATED",
                          !.all_processes[s.current_process].completion_time = s.current_time],
                "terminate", s.current_process, NO_PROCESS)
             EXCEPT !.current_process = NO_PROCESS]
    ELSE IF /\ s.all_processes[s.current_process].priority_type # "ABSOLUTE"
            /\ s.all_processes[s.current_process].current_queue < 2
            /\ s.all_processes[s.current_process].quantum_used >=
                   quantum_times(s.all_processes[s.current_process].current_queue)
         THEN quantum_expired(s)
    ELSE s

\* execute_time_slice: the current process, if there is one, runs
run_current(s, time_slice) ==
    IF s.current_process = NO_PROCESS THEN s
    ELSE end_of_slice(run_for(s, exec_time(s.all_processes[s.current_process], time_slice)))

\* execute_time_slice
execute_time_slice(s, time_slice) ==
    run_current(
        dispatch(preempt_for_absolute(add_waiting_time(update_dynamic_priorities(s), time_slice))),
        time_slice)

(***************************************************************************)
(* Permission checks (PermissionChecker).  The checker reads the directory *)
(* record at the offsets of Config, which describe a 61-byte record with a *)
(* 40-byte name; the records of the image are the 41-byte records of       *)
(* FAT32Formatter.                                                         *)
(***************************************************************************)
CONFIG_OFFSET_ATTRIBUTE == 40
CONFIG_OFFSET_UID == 49
CONFIG_OFFSET_GID == 50
CONFIG_OFFSET_PERMISSIONS == 51

\* what a check returns ("True", "False", "None") or raises
Decision(exc, ret) == [exc |-> exc, ret |-> ret]

\* check_attributes with root treated like any other caller
check_attributes_root_not_exempt(attributes, operation, is_root) ==
    IF attributes >= ATTR_SYSTEM THEN "False"
    ELSE IF attributes % 2 = 1 /\ operation # "read" THEN "False"
    ELSE "None"

\* check_attributes: the attribute byte is decoded by comparisons and
\* subtractions, not by bit tests
check_attributes(attributes, operation, is_root) ==
    LET has_system == attributes >= ATTR_SYSTEM
        temp1 == IF has_system THEN attributes - ATTR_SYSTEM ELSE attributes
        has_hidden == temp1 >= ATTR_HIDDEN
        temp2 == IF has_hidden THEN temp1 - ATTR_HIDDEN ELSE temp1
        has_read_only == temp2 % 2 = 1
    IN  IF has_system /\ ~is_root THEN "False"
        ELSE IF has_read_only
             THEN IF operation = "read" THEN "True"
                  ELSE IF operation \in {"write", "delete", "rename"} /\ ~is_root THEN "False"
                  ELSE "None"
        ELSE "None"

\* (permissions & mask) != 0 for a mask that is a power of two
HasBit(permissions, mask) == (permissions \div mask) % 2 = 1

\* the body shared by check_read_permission, check_write_permission and
\* check_execute_permission: struct.unpack of the two permission bytes, the
\* owner and group bytes, then the first matching triad
check_permission_bits(file_entry, current_uid, current_gid, owner_bit, group_bit, other_bit) ==
    IF Len(Slice(file_entry, CONFIG_OFFSET_PERMISSIONS, CONFIG_OFFSET_PERMISSIONS + 2)) # 2
    THEN Decision("struct.error", "none")
    ELSE IF CONFIG_OFFSET_UID >= Len(file_entry) \/ CONFIG_OFFSET_GID >= Len(file_entry)
    THEN Decision("IndexError", "none")
    ELSE IF current_uid = file_entry[CONFIG_OFFSET_UID + 1]
    THEN Decision("none", IF HasBit(UnpackBE(Slice(file_entry, CONFIG_OFFSET_PERMISSIONS,
                                                   CONFIG_OFFSET_PERMISSIONS + 2)), owner_bit)
                          THEN "True" ELSE "False")
    ELSE IF current_gid = file_entry[CONFIG_OFFSET_GID + 1]
    THEN Decision("none", IF HasBit(UnpackBE(Slice(file_entry, CONFIG_OFFSET_PERMISSIONS,
                                                   CONFIG_OFFSET_PERMISSIONS + 2)), group_bit)
                          THEN "True" ELSE "False")
    ELSE Decision("none", IF HasBit(UnpackBE(Slice(file_entry, CONFIG_OFFSET_PERMISSIONS,
                                                   CONFIG_OFFSET_PERMISSIONS + 2)), other_bit)
                          THEN "True" ELSE "False")

\* check_read_permission: 0o400, 0o040, 0o004
check_read_permission(file_entry, current_uid, current_gid) ==
    check_permission_bits(file_entry, current_uid, current_gid, 256, 32, 4)

\* check_write_permission: 0o200, 0o020, 0o002
check_write_permission(file_entry, current_uid, current_gid) ==
    check_permission_bits(file_entry, current_uid, current_gid, 128, 16, 2)

\* check_execute_permission: 0o100, 0o010, 0o001
check_execute_permission(file_entry, current_uid, current_gid) ==
    check_permission_bits(file_entry, current_uid, current_gid, 64, 8, 1)

\* check_file_permission, after check_attributes has returned attr_check
check_file_permission_gated(file_entry, attr_check, current_uid, current_gid, operation) ==
    IF attr_check # "None" THEN Decision("none", attr_check)
    ELSE IF current_uid = 0 THEN Decision("none", "True")
    ELSE IF operation = "read" THEN check_read_permission(file_entry, current_uid, current_gid)
    ELSE IF operation = "write" THEN check_write_permission(file_entry, current_uid, current_gid)
    ELSE IF operation = "execute" THEN check_execute_permission(file_entry, current_uid, current_gid)
    ELSE IF operation \in {"delete", "rename"}
         THEN check_write_permission(file_entry, current_uid, current_gid)
    ELSE Decision("ValueError", "none")

\* check_file_permission, once the record has been looked up
check_file_permission_entry(file_entry, current_uid, current_gid, operation) ==
    IF CONFIG_OFFSET_ATTRIBUTE >= Len(file_entry) THEN Decision("IndexError", "none")
    ELSE check_file_permission_gated(
             file_entry,
             check_attributes(file_entry[CONFIG_OFFSET_ATTRIBUTE + 1], operation, current_uid = 0),
             current_uid, current_gid, operation)

\* check_file_permission
check_file_permission(d, filename, current_uid, current_gid, operation) ==
    IF find_file_entry(d, filename) = NOT_FOUND THEN Decision("FileNotFoundError", "none")
    ELSE check_file_permission_entry(d.dir[find_file_entry(d, filename)],
                                     current_uid, current_gid, operation)

\* change_owner
change_owner(d, filename, new_uid, new_gid) ==
    IF find_file_entry(d, filename) = NOT_FOUND THEN Raised(d, "FileNotFoundError")
    ELSE IF ~FitsByte(new_uid) THEN Raised(d, "ValueError")
    ELSE IF ~FitsByte(new_gid)
         THEN Raised([d EXCEPT !.dir[find_file_entry(d, filename)] =
                                   Splice(@, OFFSET_UID, <<new_uid>>)], "ValueError")
    ELSE Returned([d EXCEPT !.dir[find_file_entry(d, filename)] =
                                Splice(Splice(@, OFFSET_UID, <<new_uid>>), OFFSET_GID, <<new_gid>>)],
                  "True")

\* the characters int() strips from both ends of its argument
IsSpace(c) == c \in {9, 10, 11, 12, 13, 32}

\* str.strip() as int() applies it
RECURSIVE Strip(_)
Strip(txt) ==
    IF txt = << >> THEN txt
    ELSE IF IsSpace(Head(txt)) THEN Strip(Tail(txt))
    ELSE IF IsSpace(txt[Len(txt)]) THEN Strip(SubSeq(txt, 1, Len(txt) - 1))
    ELSE txt

\* the value of a sequence of octal digits
RECURSIVE OctalValue(_)
OctalValue(digits) ==
    IF digits = << >> THEN 0
    ELSE OctalValue(SubSeq(digits, 1, Len(digits) - 1)) * 8 + (digits[Len(digits)] - 48)

IsOctalDigit(c) == c >= 48 /\ c <= 55

\* digits 0..7, single underscores allowed between them
IsOctalBody(body) ==
    /\ body # << >>
    /\ \A i \in 1..Len(body) : IsOctalDigit(body[i]) \/ body[i] = 95
    /\ IsOctalDigit(body[1]) /\ IsOctalDigit(body[Len(body)])
    /\ \A i \in 1..(Len(body) - 1) : ~(body[i] = 95 /\ body[i + 1] = 95)

\* int(mode, 8) for a string of ASCII characters: blanks stripped, an
\* optional sign, an optional prefix 0o or 0O (which one underscore may
\* follow), octal digits; ok is FALSE where int raises ValueError
int_base8(mode) ==
    LET stripped == Strip(mode)
        signed == stripped # << >> /\ Head(stripped) \in {43, 45}
        unsigned == IF signed THEN Tail(stripped) ELSE stripped
        prefixed == /\ Len(unsigned) >= 2
                    /\ unsigned[1] = 48 /\ unsigned[2] \in {79, 111}
        after == IF prefixed THEN SubSeq(unsigned, 3, Len(unsigned)) ELSE unsigned
        body == IF prefixed /\ after # << >> /\ Head(after) = 95 THEN Tail(after) ELSE after
        magnitude == OctalValue(SelectSeq(body, IsOctalDigit))
    IN  IF ~IsOctalBody(body) THEN [ok |-> FALSE, value |-> 0]
        ELSE [ok |-> TRUE,
              value |-> IF signed /\ Head(stripped) = 45 THEN 0 - magnitude ELSE magnitude]

\* change_permissions, once mode has been parsed
change_permissions_parsed(d, filename, parsed) ==
    IF ~parsed.ok THEN Raised(d, "ValueError")
    ELSE IF parsed.value < 0 \/ parsed.value > 65535 THEN Raised(d, "struct.error")
    ELSE Returned([d EXCEPT !.dir[find_file_entry(d, filename)] =
                                Splice(@, OFFSET_PERMISSIONS, PackBE(parsed.value, 2))], "True")

\* change_permissions: mode is a string, parsed with int(mode, 8)
change_permissions(d, filename, mode) ==
    IF find_file_entry(d, filename) = NOT_FOUND THEN Raised(d, "FileNotFoundError")
    ELSE change_permissions_parsed(d, filename, int_base8(mode))

\* update_file_size: the size field of the first record whose decoded name
\* is filename (tombstones and never-used slots are not skipped by this
\* scan) is rewritten with struct.pack('>I', new_size)
update_file_size(d, filename, new_size) ==
    IF find_file_entry(d, filename) = NOT_FOUND THEN Returned(d, "False")
    ELSE IF ~FitsU32(new_size) THEN Raised(d, "struct.error")
    ELSE Returned([d EXCEPT !.dir[SetMin({s \in DirSlots : EntryName(d.dir[s]) = filename})] =
                                Splice(@, OFFSET_FILE_SIZE, PackBE(new_size, 4))], "True")

(***************************************************************************)
(* Emulator.py: the shell commands.                                        *)
(***************************************************************************)
\* do_rm, after delete_file: nothing is returned
do_rm_deleted(o) == IF Failed(o) THEN o ELSE Returned(o.disk, "None")

\* do_rm, after check_write_permission has answered or raised
do_rm_checked(d, filename, decision) ==
    IF decision.exc # "none" THEN Raised(d, decision.exc)
    ELSE IF decision.ret # "True" THEN Raised(d, "PermissionError")
    ELSE do_rm_deleted(delete_file(d, filename))

\* do_rm: the owner is read at byte 29 of the record find_file_entry returns
do_rm(d, filename, current_uid, current_gid, sudo_mode) ==
    IF find_file_entry(d, filename) = NOT_FOUND THEN Raised(d, "FileNotFoundError")
    ELSE IF /\ current_uid # d.dir[find_file_entry(d, filename)][29 + 1]
            /\ current_uid # 0
            /\ ~sudo_mode
    THEN Raised(d, "PermissionError")
    ELSE do_rm_checked(d, filename,
                       check_write_permission(d.dir[find_file_entry(d, filename)],
                                              current_uid, current_gid))

\* do_useradd: refused unless the session is root's or sudo_mode is on; the
\* password is typed twice; every exception of add_user is caught and printed
do_useradd(d, current_uid, sudo_mode, username, password, confirm) ==
    IF current_uid # 0 /\ ~sudo_mode THEN Returned(d, "None")
    ELSE IF password # confirm THEN Returned(d, "None")
    ELSE Caught(add_user(d, username, password, NONE, 100), "None")

\* create_new_user_interactive, after add_user: True, or False when add_user
\* raised
create_new_user_interactive_added(o) ==
    IF o.hang THEN o
    ELSE IF o.exc # "none" THEN Returned(o.disk, "False")
    ELSE Returned(o.disk, "True")

\* create_new_user_interactive, once a name of 1..20 characters and a
\* password of 4 characters or more, typed twice, have been read (any other
\* input is asked for again; a name already listed is only reported)
create_new_user_interactive(d, username, password) ==
    create_new_user_interactive_added(add_user(d, username, password, NONE, 100))

(***************************************************************************)
(* State.                                                                  *)
(***************************************************************************)
VARIABLES
    disk,     \* the disk image
    hung,     \* TRUE once a call has entered a loop that never ends
    result,   \* the last call: its arguments and what it returned or raised
    nops,     \* number of calls made so far
    current_user,  \* FAT32Emulator.current_user (<< >> models None)
    current_uid,   \* FAT32Emulator.current_uid (NONE models None)
    current_gid,   \* FAT32Emulator.current_gid (NONE models None)
    regular_users, \* the local regular_users of an authenticate() that waits
                   \* at its menu after a choice n (<< >> otherwise)
    sched          \* the MultilevelFeedbackQueueScheduler

fsVars == <<disk, hung, result, nops>>
shellVars == <<current_user, current_uid, current_gid, regular_users>>
vars == <<disk, hung, result, nops, current_user, current_uid, current_gid, regular_users, sched>>

NoResult ==
    [op |-> "none", name |-> << >>, content |-> << >>, mode |-> "none",
     first_before |-> NOT_FOUND, exc |-> "none", ret |-> "none"]

\* first_cluster of the live record called name, NOT_FOUND if there is none
FirstClusterOf(d, name) ==
    IF find_file_entry(d, name) = NOT_FOUND THEN NOT_FOUND
    ELSE EntryFirstCluster(d.dir[find_file_entry(d, name)])

\* the call returns (or raises, or hangs) with outcome o
Finish(o, op, name, content, mode) ==
    /\ disk' = o.disk
    /\ hung' = o.hang
    /\ result' = [op |-> op, name |-> name, content |-> content, mode |-> mode,
                  first_before |-> FirstClusterOf(disk, name),
                  exc |-> o.exc, ret |-> o.ret]
    /\ nops' = nops + 1
    /\ UNCHANGED sched

(***************************************************************************)
(* Inputs of the runs.                                                     *)
(***************************************************************************)
STR_a == <<97>>
STR_b == <<98>>
FileNames == {STR_a, STR_b}
CALLER_UID == 1
CALLER_GID == 100

\* byte strings of n bytes; strings written by different calls differ, and so
\* do the successive clusters of one string
Content(seed, n) == [i \in 1..n |-> 1 + ((seed * 31 + i) % 97)]
ContentLengths == {0, 1, CLUSTER_SIZE, CLUSTER_SIZE + 1, 2 * CLUSTER_SIZE + 1}
WriteModes == {"replace", "append", "overwrite"}

(***************************************************************************)
(* File-system specification: calls of create_file, write_file,            *)
(* delete_file and rename_file on a formatted image.                       *)
(***************************************************************************)
\* FAT32Emulator.__init__: nobody is logged in
NoSession ==
    /\ current_user = << >>
    /\ current_uid = NONE
    /\ current_gid = NONE

Init ==
    /\ disk = format_disk
    /\ hung = FALSE
    /\ result = NoResult
    /\ nops = 0
    /\ NoSession
    /\ regular_users = << >>
    /\ sched = NewScheduler

CreateFile(name) ==
    /\ ~hung /\ nops < MaxOps
    /\ Finish(create_file(disk, name, CALLER_UID, CALLER_GID, ATTR_DEFAULT),
              "create_file", name, << >>, "none")
    /\ UNCHANGED shellVars

WriteFile(name, n, mode) ==
    /\ ~hung /\ nops < MaxOps
    /\ Finish(write_file(disk, name, Content(nops + 1, n), mode = "append", mode = "overwrite",
                         CALLER_UID, CALLER_GID, ATTR_DEFAULT),
              "write_file", name, Content(nops + 1, n), mode)
    /\ UNCHANGED shellVars

DeleteFile(name) ==
    /\ ~hung /\ nops < MaxOps
    /\ Finish(delete_file(disk, name), "delete_file", name, << >>, "none")
    /\ UNCHANGED shellVars

RenameFile(old, new) ==
    /\ ~hung /\ nops < MaxOps
    /\ Finish(rename_file(disk, old, new), "rename_file", old, << >>, "none")
    /\ UNCHANGED shellVars

Next ==
    \/ \E name \in FileNames : CreateFile(name)
    \/ \E name \in FileNames, n \in ContentLengths, mode \in WriteModes : WriteFile(name, n, mode)
    \/ \E name \in FileNames : DeleteFile(name)
    \/ \E old \in FileNames, new \in FileNames : RenameFile(old, new)

Spec == Init /\ [][Next]_vars

(***************************************************************************)
(* Size specification: the file operations together with                   *)
(* update_file_size, which no part of the program calls.                   *)
(***************************************************************************)
\* sizes given to update_file_size: negative, empty, shorter than one
\* cluster, longer than one cluster
NewSizes == {0 - 1, 0, 3, 200}

\* update_file_size(name, new_size); result keeps the size in content
UpdateFileSize(name, new_size) ==
    /\ ~hung /\ nops < MaxOps
    /\ Finish(update_file_size(disk, name, new_size), "update_file_size", name,
              <<new_size>>, "none")
    /\ UNCHANGED shellVars

NextSize ==
    \/ Next
    \/ \E name \in FileNames, new_size \in NewSizes : UpdateFileSize(name, new_size)

SpecSize == Init /\ [][NextSize]_vars

(***************************************************************************)
(* Identity-store specification: calls of add_user, set_password and       *)
(* add_group on a formatted image, and the shell's authenticate().         *)
(***************************************************************************)
STR_al == <<97, 108>>
STR_bo == <<98, 111>>
STR_pass == <<112, 97, 115, 115>>
STR_word == <<119, 111, 114, 100>>
LoginNames == {STR_root, STR_al, STR_bo}
\* a login one character longer than the login field of a user record
STR_long == [i \in 1..(LOGIN_SIZE + 1) |-> 97]
NewLogins == LoginNames \cup {STR_long}
\* passwords typed at the prompts (authenticate accepts 4 characters or more)
Passwords == {STR_pass, STR_word}
GroupNames == {STR_users, STR_admins}
GroupIds == {NONE, 100}
DEFAULT_USER_GID == 100
GID_USERS == 100
GID_ADMINS == 101

FinishId(o, op, name, content, mode) ==
    /\ disk' = o.disk
    /\ hung' = o.hang
    /\ result' = [op |-> op, name |-> name, content |-> content, mode |-> mode,
                  first_before |-> NOT_FOUND, exc |-> o.exc, ret |-> o.ret]
    /\ nops' = nops + 1
    /\ UNCHANGED sched

\* add_user(login, password), called by do_useradd and create_new_user_interactive
AddUser(login, password) ==
    /\ ~hung /\ nops < MaxIdOps
    /\ FinishId(add_user(disk, login, password, NONE, DEFAULT_USER_GID),
                "add_user", login, password, "none")
    /\ UNCHANGED shellVars

\* set_password(username, password)
SetPassword(username, password) ==
    /\ ~hung /\ nops < MaxIdOps
    /\ FinishId(set_password(disk, username, password), "set_password", username, password, "none")
    /\ UNCHANGED shellVars

\* add_group(group_name, gid)
AddGroup(group_name, gid) ==
    /\ ~hung /\ nops < MaxIdOps
    /\ FinishId(add_group(disk, group_name, gid), "add_group", group_name, << >>, "none")
    /\ UNCHANGED shellVars

\* authenticate(), first-run branch: the password typed twice is stored with
\* set_password (whose result is not looked at), the standard groups are
\* added inside try/except
authenticate_users_added(g1) ==
    IF g1.hang THEN g1 ELSE Caught(add_group(g1.disk, STR_admins, GID_ADMINS), "True")
authenticate_password_set(p) ==
    IF p.hang THEN p ELSE authenticate_users_added(add_group(p.disk, STR_users, GID_USERS))
authenticate_first_run(d, password) ==
    authenticate_password_set(set_password(d, STR_root, password))

\* authenticate_user: True when the password verifies and the user is listed
authenticate_user(d, username, password) ==
    IF verify_password(d, username, password) /\ UserIndex(read_users_file(d), username) # 0
    THEN Returned(d, "True") ELSE Returned(d, "False")

\* end of the first-run branch: the session is root's
FirstRunSession(o, password) ==
    /\ FinishId(o, "authenticate", STR_root, password, "first_run")
    /\ UNCHANGED regular_users
    /\ IF o.hang
       THEN UNCHANGED <<current_user, current_uid, current_gid>>
       ELSE current_user' = STR_root /\ current_uid' = 0 /\ current_gid' = 0

\* end of authenticate_user: the session is the one of the record read; a
\* refused login assigns nothing; authenticate() returns what
\* authenticate_user returned, so its menu is left
LoginSession(o, users, username, password) ==
    /\ FinishId(o, "authenticate", username, password, "login")
    /\ regular_users' = IF o.hang THEN regular_users ELSE << >>
    /\ IF o.ret = "True"
       THEN /\ current_user' = username
            /\ current_uid' = users[UserIndex(users, username)].uid
            /\ current_gid' = users[UserIndex(users, username)].gid
       ELSE UNCHANGED <<current_user, current_uid, current_gid>>

\* a call of authenticate() at start-up or in do_login (which first clears
\* the session) that is answered without a choice n: first-run branch when
\* is_first_run(), else the login of root or of a listed regular user
Authenticate(username, password) ==
    /\ ~hung /\ nops < MaxIdOps
    /\ regular_users = << >>
    /\ IF is_first_run(disk)
       THEN FirstRunSession(authenticate_first_run(disk, password), password)
       ELSE /\ \/ username = STR_root
               \/ \E i \in 1..Len(get_regular_users(disk)) :
                      get_regular_users(disk)[i].login = username
            /\ LoginSession(authenticate_user(disk, username, password),
                            read_users_file(disk), username, password)

NextId ==
    \/ \E login \in NewLogins, password \in Passwords : AddUser(login, password)
    \/ \E username \in LoginNames, password \in Passwords : SetPassword(username, password)
    \/ \E group_name \in GroupNames, gid \in GroupIds : AddGroup(group_name, gid)
    \/ \E username \in LoginNames, password \in Passwords : Authenticate(username, password)

SpecId == Init /\ [][NextId]_vars


(***************************************************************************)
(* Scheduler specification: calls of add_process and execute_time_slice on *)
(* a new scheduler.                                                        *)
(***************************************************************************)
\* number of processes added in one run
MaxProcs == 3
\* number of calls of one run of the scheduler specification
MaxSchedOps == 6

\* the processes added: a long and a short process of each relative kind
\* (one of them announced for a later time), a short and a long ABSOLUTE one
ProcessInput(burst_time, arrival_time, relative_priority, priority_type) ==
    [burst_time |-> burst_time, arrival_time |-> arrival_time,
     relative_priority |-> relative_priority, priority_type |-> priority_type]
ProcessInputs ==
    {ProcessInput(7, 0, 2, "RELATIVE"), ProcessInput(3, 5, 1, "RELATIVE"),
     ProcessInput(7, 0, 1, "DYNAMIC"), ProcessInput(3, 0, 2, "DYNAMIC"),
     ProcessInput(1, 0, 1, "ABSOLUTE"), ProcessInput(3, 0, 1, "ABSOLUTE")}
TimeSlices == {1, 2}

\* add_process(name, burst_time, arrival_time, relative_priority, priority_type)
AddProcess(burst_time, arrival_time, relative_priority, priority_type) ==
    /\ nops < MaxSchedOps
    /\ Len(sched.all_processes) < MaxProcs
    /\ sched' = add_process([sched EXCEPT !.scheduling_events = << >>],
                            burst_time, arrival_time, relative_priority, priority_type)
    /\ result' = [NoResult EXCEPT !.op = "add_process"]
    /\ nops' = nops + 1
    /\ UNCHANGED <<disk, hung, current_user, current_uid, current_gid, regular_users>>

\* execute_time_slice(time_slice)
ExecuteTimeSlice(time_slice) ==
    /\ nops < MaxSchedOps
    /\ sched' = execute_time_slice([sched EXCEPT !.scheduling_events = << >>], time_slice)
    /\ result' = [NoResult EXCEPT !.op = "execute_time_slice"]
    /\ nops' = nops + 1
    /\ UNCHANGED <<disk, hung, current_user, current_uid, current_gid, regular_users>>

NextSched ==
    \/ \E p \in ProcessInputs :
          AddProcess(p.burst_time, p.arrival_time, p.relative_priority, p.priority_type)
    \/ \E time_slice \in TimeSlices : ExecuteTimeSlice(time_slice)

SpecSched == Init /\ [][NextSched]_vars

(***************************************************************************)
(* Permission specification: files created with different owners and      *)
(* attribute bytes, written, chmod-ed and chown-ed, and calls of           *)
(* check_file_permission on them.                                          *)
(***************************************************************************)
\* number of calls that change the image in one run
MaxPermOps == 3

\* owners and callers as <<uid, gid>>
Owners == {<<0, 0>>, <<1, 100>>, <<2, 101>>}
Callers == {<<0, 0>>, <<1, 100>>, <<2, 100>>, <<3, 102>>}
\* attribute bytes given to create_file: none, READ_ONLY, SYSTEM, the default
AttributeBytes == {0, 1, 4, 32}
\* the strings "640", "4", "700" and "0", and "8", which int(mode, 8) refuses
Modes == {<<54, 52, 48>>, <<52>>, <<55, 48, 48>>, <<48>>, <<56>>}
Operations == {"read", "write", "execute", "delete", "rename"}

\* create_file(name, uid, gid, attributes)
CreateFileAs(name, owner, attributes) ==
    /\ ~hung /\ nops < MaxPermOps
    /\ Finish(create_file(disk, name, owner[1], owner[2], attributes),
              "create_file", name, << >>, "none")
    /\ UNCHANGED shellVars

\* write_file(name, content, uid, gid) of one byte
WriteFileAs(name, owner) ==
    /\ ~hung /\ nops < MaxPermOps
    /\ Finish(write_file(disk, name, Content(nops + 1, 1), FALSE, FALSE,
                         owner[1], owner[2], ATTR_DEFAULT),
              "write_file", name, Content(nops + 1, 1), "replace")
    /\ UNCHANGED shellVars

\* change_permissions(name, mode)
ChangePermissions(name, mode) ==
    /\ ~hung /\ nops < MaxPermOps
    /\ Finish(change_permissions(disk, name, mode), "change_permissions", name, << >>, "none")
    /\ UNCHANGED shellVars

\* change_owner(name, uid, gid)
ChangeOwner(name, owner) ==
    /\ ~hung /\ nops < MaxPermOps
    /\ Finish(change_owner(disk, name, owner[1], owner[2]), "change_owner", name, << >>, "none")
    /\ UNCHANGED shellVars

\* PermissionChecker.check_file_permission(fs, name, uid, gid, operation):
\* nothing is written; result keeps the caller in content and the operation
\* in mode
CheckFilePermission(name, caller, operation) ==
    /\ ~hung
    /\ result' = [op |-> "check_file_permission", name |-> name, content |-> caller,
                  mode |-> operation, first_before |-> NOT_FOUND,
                  exc |-> check_file_permission(disk, name, caller[1], caller[2], operation).exc,
                  ret |-> check_file_permission(disk, name, caller[1], caller[2], operation).ret]
    /\ UNCHANGED <<disk, hung, nops, sched>>
    /\ UNCHANGED shellVars

NextPerm ==
    \/ \E owner \in Owners, attributes \in AttributeBytes : CreateFileAs(STR_a, owner, attributes)
    \/ \E owner \in Owners : WriteFileAs(STR_a, owner)
    \/ \E mode \in Modes : ChangePermissions(STR_a, mode)
    \/ \E owner \in Owners : ChangeOwner(STR_a, owner)
    \/ \E caller \in Callers, operation \in Operations :
           CheckFilePermission(STR_a, caller, operation)

SpecPerm == Init /\ [][NextPerm]_vars

(***************************************************************************)
(* Attribute-gate specification: check_attributes applied to every         *)
(* attribute byte, operation and kind of caller.                           *)
(***************************************************************************)
\* number of calls of check_attributes in one run
MaxAttrOps == 1

\* PermissionChecker.check_attributes(attributes, operation, is_root): result
\* keeps the attribute byte and is_root (1 / 0) in content
CheckAttributes(attributes, operation, is_root) ==
    /\ nops < MaxAttrOps
    /\ nops' = nops + 1
    /\ result' = [op |-> "check_attributes", name |-> << >>,
                  content |-> <<attributes, IF is_root THEN 1 ELSE 0>>,
                  mode |-> operation, first_before |-> NOT_FOUND,
                  exc |-> "none", ret |-> check_attributes(attributes, operation, is_root)]
    /\ UNCHANGED <<disk, hung, sched>>
    /\ UNCHANGED shellVars

NextAttr ==
    \E attributes \in 0..255, operation \in Operations, is_root \in BOOLEAN :
        CheckAttributes(attributes, operation, is_root)

SpecAttr == Init /\ [][NextAttr]_vars

(***************************************************************************)
(* Run specification: a new scheduler is fed RELATIVE processes and then   *)
(* stepped with execute_time_slice(1) until the processes have finished.   *)
(* scheduling_events is kept over the whole run, as the scheduler keeps    *)
(* it.                                                                     *)
(***************************************************************************)
\* number of processes added in one run
MaxRunProcs == 2
\* number of calls of one run
MaxRunOps == 14

\* the processes added: RELATIVE, announced for time 0, long or short, of the
\* first or the second priority
RunInputs ==
    {ProcessInput(burst_time, 0, relative_priority, "RELATIVE") :
        burst_time \in {4, 6}, relative_priority \in {1, 2}}
RunSlices == {1}

\* add_process(name, burst_time, arrival_time, relative_priority, priority_type)
RunAddProcess(burst_time, arrival_time, relative_priority, priority_type) ==
    /\ nops < MaxRunOps
    /\ Len(sched.all_processes) < MaxRunProcs
    /\ sched' = add_process(sched, burst_time, arrival_time, relative_priority, priority_type)
    /\ result' = [NoResult EXCEPT !.op = "add_process"]
    /\ nops' = nops + 1
    /\ UNCHANGED <<disk, hung, current_user, current_uid, current_gid, regular_users>>

\* execute_time_slice(time_slice)
RunTimeSlice(time_slice) ==
    /\ nops < MaxRunOps
    /\ sched' = execute_time_slice(sched, time_slice)
    /\ result' = [NoResult EXCEPT !.op = "execute_time_slice"]
    /\ nops' = nops + 1
    /\ UNCHANGED <<disk, hung, current_user, current_uid, current_gid, regular_users>>

NextRun ==
    \/ \E p \in RunInputs :
          RunAddProcess(p.burst_time, p.arrival_time, p.relative_priority, p.priority_type)
    \/ \E time_slice \in RunSlices : RunTimeSlice(time_slice)

SpecRun == Init /\ [][NextRun]_vars

(***************************************************************************)
(* Ownership specification: create_file with the owner ids of the caller's *)
(* choice, write_file of "hello" without owner ids or in overwrite mode,   *)
(* delete_file and rename_file; the new name of a rename may be empty.     *)
(***************************************************************************)
\* number of operations of one run of the ownership specification
MaxOwnOps == 4
STR_hello == <<104, 101, 108, 108, 111>>
STR_empty == << >>
\* the owners passed to create_file: (uid, gid); 1000 is the uid of the
\* default user of the specification's scenario
CreateOwners == {<<1, 100>>, <<255, 0>>, <<1000, 100>>}
NewNames == FileNames \cup {STR_empty}

\* create_file(name, uid, gid); result keeps the owner passed in content
CreateFileOwned(name, owner) ==
    /\ ~hung /\ nops < MaxOwnOps
    /\ Finish(create_file(disk, name, owner[1], owner[2], ATTR_DEFAULT),
              "create_file", name, owner, "none")
    /\ UNCHANGED shellVars

\* write_file(name, "hello")
WriteHello(name) ==
    /\ ~hung /\ nops < MaxOwnOps
    /\ Finish(write_file(disk, name, STR_hello, FALSE, FALSE, NONE, NONE, ATTR_DEFAULT),
              "write_file", name, STR_hello, "replace")
    /\ UNCHANGED shellVars

\* write_file(name, "hello", overwrite=True, uid=uid, gid=gid); result keeps
\* the owner passed in content
OverwriteFileOwned(name, owner) ==
    /\ ~hung /\ nops < MaxOwnOps
    /\ Finish(write_file(disk, name, STR_hello, FALSE, TRUE, owner[1], owner[2], ATTR_DEFAULT),
              "write_file", name, owner, "overwrite")
    /\ UNCHANGED shellVars

\* delete_file(name)
RemoveFile(name) ==
    /\ ~hung /\ nops < MaxOwnOps
    /\ Finish(delete_file(disk, name), "delete_file", name, << >>, "none")
    /\ UNCHANGED shellVars

\* rename_file(old, new); result keeps the new name in content
RenameFileTo(old, new) ==
    /\ ~hung /\ nops < MaxOwnOps
    /\ Finish(rename_file(disk, old, new), "rename_file", old, new, "none")
    /\ UNCHANGED shellVars

NextOwn ==
    \/ \E name \in FileNames, owner \in CreateOwners : CreateFileOwned(name, owner)
    \/ \E name \in FileNames : WriteHello(name)
    \/ \E name \in FileNames, owner \in CreateOwners : OverwriteFileOwned(name, owner)
    \/ \E name \in FileNames : RemoveFile(name)
    \/ \E old \in FileNames, new \in NewNames : RenameFileTo(old, new)

SpecOwn == Init /\ [][NextOwn]_vars

(***************************************************************************)
(* Directory specification: create_file and delete_file with one name more *)
(* than the root directory of the model has room for.                      *)
(***************************************************************************)
STR_c == <<99>>
DirNames == FileNames \cup {STR_c}

NextDir ==
    \/ \E name \in DirNames : CreateFileOwned(name, <<CALLER_UID, CALLER_GID>>)
    \/ \E name \in DirNames : RemoveFile(name)

SpecDir == Init /\ [][NextDir]_vars

(***************************************************************************)
(* rm specification: the shell's do_rm called by root, by root under sudo, *)
(* by the owner and by other users on a file whose owner and permission    *)
(* bits vary.                                                              *)
(***************************************************************************)
\* number of calls in one run
MaxRmOps == 3

\* the session do_rm runs in: execute_sudo_command sets uid 0, gid 0 and
\* sudo_mode for the command and restores them afterwards, so sudo_mode is
\* on only with uid 0
RmSessions ==
    {[uid |-> c[1], gid |-> c[2], sudo_mode |-> FALSE] : c \in Callers}
      \cup {[uid |-> 0, gid |-> 0, sudo_mode |-> TRUE]}

\* the command rm name typed in session; result keeps the session in content
DoRm(name, session) ==
    /\ ~hung /\ nops < MaxRmOps
    /\ Finish(do_rm(disk, name, session.uid, session.gid, session.sudo_mode),
              "rm", name, session, "none")
    /\ UNCHANGED shellVars

\* create_file and change_permissions as in the permission specification,
\* within MaxRmOps calls
NextRm ==
    \/ \E owner \in Owners :
           nops < MaxRmOps /\ CreateFileAs(STR_a, owner, ATTR_DEFAULT)
    \/ \E mode \in Modes : nops < MaxRmOps /\ ChangePermissions(STR_a, mode)
    \/ \E session \in RmSessions : DoRm(STR_a, session)

SpecRm == Init /\ [][NextRm]_vars

(***************************************************************************)
(* Shell specification: authenticate() with its menu, login, useradd and   *)
(* sudo useradd typed at the prompt.                                       *)
(***************************************************************************)
\* number of calls that may change the image in one run
MaxShellOps == 4

\* names typed for new users
ShellLogins == {STR_al, STR_bo}

\* the identity a command acts under, kept in result.mode
Acting(uid, sudo_mode) == [uid |-> uid, sudo_mode |-> sudo_mode]

\* authenticate() at start-up or after login
ShellAuthenticate(username, password) ==
    /\ nops < MaxShellOps
    /\ NoSession
    /\ Authenticate(username, password)

\* do_login, up to its call of authenticate(): the session is cleared
DoLogin ==
    /\ ~hung
    /\ current_uid # NONE
    /\ current_user' = << >> /\ current_uid' = NONE /\ current_gid' = NONE
    /\ result' = [NoResult EXCEPT !.op = "login"]
    /\ UNCHANGED <<disk, hung, nops, regular_users, sched>>

\* useradd name typed at the prompt of a logged-in session
DoUseradd(username, password) ==
    /\ ~hung /\ nops < MaxShellOps
    /\ current_uid # NONE
    /\ FinishId(do_useradd(disk, current_uid, FALSE, username, password, password),
                "useradd", username, password, Acting(current_uid, FALSE))
    /\ UNCHANGED shellVars

\* the session when execute_sudo_command is left, or is never left: the
\* finally clause puts the caller's session back; a command that does not
\* return leaves the session root's
SudoSession(o) ==
    IF o.hang
    THEN current_user' = STR_root /\ current_uid' = 0 /\ current_gid' = 0
    ELSE UNCHANGED <<current_user, current_uid, current_gid>>

\* sudo useradd name: execute_sudo_command asks for root's password, runs
\* the command as root with sudo_mode on, restores the session and returns
\* True whatever the command did
SudoUseradd(username, password, root_password) ==
    /\ ~hung /\ nops < MaxShellOps
    /\ current_uid # NONE
    /\ IF verify_password(disk, STR_root, root_password)
       THEN /\ FinishId(Caught(do_useradd(disk, 0, TRUE, username, password, password), "True"),
                        "sudo useradd", username, password, Acting(0, TRUE))
            /\ SudoSession(do_useradd(disk, 0, TRUE, username, password, password))
       ELSE /\ FinishId(Returned(disk, "True"),
                        "sudo useradd", username, password, Acting(current_uid, FALSE))
            /\ UNCHANGED <<current_user, current_uid, current_gid>>
    /\ UNCHANGED regular_users

\* the choice n of authenticate()'s menu: nobody is logged in. The menu is
\* shown when authenticate() starts, if it is not the first run and a
\* regular user exists; is_first_run() and get_regular_users() are read
\* then and not again, so the menu stays and keeps its list whatever the
\* choice n does to the users file
CreateNewUserInteractive(username, password) ==
    /\ ~hung /\ nops < MaxShellOps
    /\ NoSession
    /\ \/ regular_users # << >>
       \/ ~is_first_run(disk) /\ Len(get_regular_users(disk)) > 0
    /\ Len(username) \in 1..20
    /\ Len(password) >= 4
    /\ FinishId(create_new_user_interactive(disk, username, password),
                "create_new_user_interactive", username, password, Acting(NONE, FALSE))
    /\ regular_users' = IF regular_users # << >> THEN regular_users
                                                 ELSE get_regular_users(disk)
    /\ UNCHANGED <<current_user, current_uid, current_gid>>

\* the choices r and 1, 2, ... of a menu that has already served a choice
\* n: the login of root, or of a user of the list read when authenticate()
\* started, against the users file as it is now
AuthenticateFromMenu(username, password) ==
    /\ ~hung /\ nops < MaxShellOps
    /\ NoSession
    /\ regular_users # << >>
    /\ \/ username = STR_root
       \/ \E i \in 1..Len(regular_users) : regular_users[i].login = username
    /\ LoginSession(authenticate_user(disk, username, password),
                    read_users_file(disk), username, password)

NextShell ==
    \/ \E username \in LoginNames, password \in Passwords :
           ShellAuthenticate(username, password)
    \/ DoLogin
    \/ \E username \in ShellLogins, password \in Passwords : DoUseradd(username, password)
    \/ \E username \in ShellLogins, password \in Passwords, root_password \in Passwords :
           SudoUseradd(username, password, root_password)
    \/ \E username \in ShellLogins, password \in Passwords :
           CreateNewUserInteractive(username, password)
    \/ \E username \in LoginNames, password \in Passwords :
           AuthenticateFromMenu(username, password)

SpecShell == Init /\ [][NextShell]_vars

(***************************************************************************)
(* Priority specification: the calls of the scheduler specification on     *)
(* processes whose relative priority is at either end of the range 1..10.  *)
(***************************************************************************)
PrioInputs ==
    {ProcessInput(4, 0, 10, "DYNAMIC"), ProcessInput(4, 0, 1, "DYNAMIC"),
     ProcessInput(4, 0, 10, "RELATIVE"), ProcessInput(2, 0, 10, "ABSOLUTE")}

NextPrio ==
    \/ \E p \in PrioInputs :
          AddProcess(p.burst_time, p.arrival_time, p.relative_priority, p.priority_type)
    \/ \E time_slice \in TimeSlices : ExecuteTimeSlice(time_slice)

SpecPrio == Init /\ [][NextPrio]_vars

(***************************************************************************)
(* SchedulerEmulator/scheduler.py: the scheduler with one ready queue.     *)
(* A process is a record of the sequence processes, found at the index     *)
(* that is its pid; the ready queue holds pids.  Times are whole numbers.  *)
(* The flags paused and interrupted, set from the keyboard, stay False.    *)
(***************************************************************************)
\* Process(pid, name, arrival_time, burst_time, priority) and __post_init__
Scheduler_Process(pid, arrival_time, burst_time, priority) ==
    [pid |-> pid, arrival_time |-> arrival_time, burst_time |-> burst_time,
     priority |-> priority, remaining_time |-> burst_time, state |-> "READY",
     start_time |-> NONE, completion_time |-> NONE, dynamic_priority |-> priority]

\* Scheduler(time_quantum)
Scheduler_init(time_quantum) ==
    [processes |-> << >>, ready_queue |-> << >>, time_quantum |-> time_quantum,
     current_time |-> 0, current_process |-> NO_PROCESS, pid_counter |-> 1]

\* add_process, once arrival_time has been raised to current_time
Scheduler_add_arrived(s, burst_time, priority, arrival_time) ==
    [s EXCEPT !.processes = Append(@, Scheduler_Process(s.pid_counter, arrival_time,
                                                        burst_time, priority)),
              !.pid_counter = @ + 1,
              !.ready_queue = IF arrival_time <= s.current_time
                              THEN Append(@, s.pid_counter) ELSE @]

\* add_process: a process that has not arrived yet stays out of the ready queue
Scheduler_add_process(s, burst_time, priority, arrival_time) ==
    Scheduler_add_arrived(s, burst_time, priority,
                          IF arrival_time < s.current_time THEN s.current_time
                          ELSE arrival_time)

\* update_dynamic_priorities
Scheduler_update_dynamic_priorities(s) ==
    [s EXCEPT !.processes =
        [i \in DOMAIN @ |->
            IF @[i].state = "READY"
            THEN [@[i] EXCEPT !.dynamic_priority = Max(1, s.processes[i].priority - 1)]
            ELSE IF @[i].state = "RUNNING"
            THEN [@[i] EXCEPT !.dynamic_priority = s.processes[i].priority + 1]
            ELSE @[i]]]

\* schedule_next: the sort key (dynamic_priority, arrival_time) of a is
\* smaller than that of b
Scheduler_before(s, a, b) ==
    \/ s.processes[a].dynamic_priority < s.processes[b].dynamic_priority
    \/ /\ s.processes[a].dynamic_priority = s.processes[b].dynamic_priority
       /\ s.processes[a].arrival_time < s.processes[b].arrival_time

\* schedule_next: the position in the ready queue of the first element of the
\* stable sort
Scheduler_first_sorted(s) ==
    CHOOSE i \in DOMAIN s.ready_queue :
        \A j \in DOMAIN s.ready_queue :
            \/ Scheduler_before(s, s.ready_queue[i], s.ready_queue[j])
            \/ (~Scheduler_before(s, s.ready_queue[j], s.ready_queue[i]) /\ i <= j)

\* deque.remove: the queue without its element at position k
Scheduler_removed(queue, k) ==
    [i \in 1..(Len(queue) - 1) |-> IF i < k THEN queue[i] ELSE queue[i + 1]]

\* schedule_next: the chosen process leaves the ready queue
Scheduler_schedule_next(s) ==
    IF s.ready_queue = << >> THEN [sched |-> s, process |-> NO_PROCESS]
    ELSE [sched |-> [s EXCEPT !.ready_queue = Scheduler_removed(@, Scheduler_first_sorted(s))],
          process |-> s.ready_queue[Scheduler_first_sorted(s)]]

\* execute_time_slice: the process schedule_next returned becomes current
Scheduler_start(r) ==
    IF r.process = NO_PROCESS THEN [r.sched EXCEPT !.current_process = NO_PROCESS]
    ELSE [r.sched EXCEPT !.current_process = r.process,
                         !.processes[r.process].state = "RUNNING",
                         !.processes[r.process].start_time =
                             IF @ = NONE THEN r.sched.current_time ELSE @]

\* execute_time_slice: a process is chosen when none is running
Scheduler_dispatch(s) ==
    IF s.current_process = NO_PROCESS
    THEN Scheduler_start(Scheduler_schedule_next(s))
    ELSE IF s.processes[s.current_process].state # "RUNNING"
    THEN Scheduler_start(Scheduler_schedule_next(s))
    ELSE s

\* execute_time_slice, after the quantum: the process terminates or goes back
\* to the end of the ready queue with a lower priority
Scheduler_end_of_slice(s) ==
    IF s.processes[s.current_process].remaining_time <= 0
    THEN [s EXCEPT !.processes[s.current_process].state = "TERMINATED",
                   !.processes[s.current_process].completion_time = s.current_time,
                   !.current_process = NO_PROCESS]
    ELSE [s EXCEPT !.processes[s.current_process].state = "READY",
                   !.processes[s.current_process].dynamic_priority = @ + 1,
                   !.ready_queue = Append(@, s.current_process),
                   !.current_process = NO_PROCESS]

\* execute_time_slice: the current process runs for exec_time
Scheduler_run_for(s, t) ==
    Scheduler_end_of_slice(
        [s EXCEPT !.current_time = @ + t,
                  !.processes[s.current_process].remaining_time = @ - t])

\* execute_time_slice: exec_time = min(time_quantum, remaining_time)
Scheduler_run_current(s) ==
    IF s.current_process = NO_PROCESS THEN s
    ELSE Scheduler_run_for(s, Min(s.time_quantum,
                                  s.processes[s.current_process].remaining_time))

\* execute_time_slice: the READY processes that are not in the ready queue
\* and whose arrival_time has been reached are appended to it
Scheduler_arrivals(s) ==
    LET arrived(pid) ==
            /\ s.processes[pid].state = "READY"
            /\ \A i \in DOMAIN s.ready_queue : s.ready_queue[i] # pid
            /\ s.processes[pid].arrival_time <= s.current_time
    IN  [s EXCEPT !.ready_queue =
             @ \o SelectSeq([pid \in DOMAIN s.processes |-> pid], arrived)]

\* execute_time_slice
Scheduler_execute_time_slice(s) ==
    Scheduler_arrivals(Scheduler_update_dynamic_priorities(
        Scheduler_run_current(Scheduler_dispatch(s))))

\* run_simulation, the condition of its loop
Scheduler_some_not_terminated(s) ==
    \E pid \in DOMAIN s.processes : s.processes[pid].state # "TERMINATED"

\* run_simulation, the test made after execute_time_slice: every process
\* that has arrived is TERMINATED
Scheduler_all_arrived_terminated(s) ==
    \A pid \in DOMAIN s.processes :
        s.processes[pid].arrival_time <= s.current_time
            => s.processes[pid].state = "TERMINATED"

(***************************************************************************)
(* Single-queue specification: processes are added to a new Scheduler,     *)
(* among them processes that arrive later, and run_simulation repeats      *)
(* execute_time_slice until it reports that all processes are done.  In    *)
(* this specification sched is the Scheduler of SchedulerEmulator.         *)
(***************************************************************************)
\* number of processes added in one run
MaxQueueProcs == 2
\* add_process is called only among the first MaxQueueAdds calls of a run
MaxQueueAdds == 3
\* number of calls of one run: more than the added processes need to finish
MaxQueueOps == 10
\* the quantum the scheduler is built with (the default of main)
TIME_QUANTUM == 1

QueueInputs ==
    [burst_time : {1, 2}, priority : {1, 2}, arrival_time : {0, 1, 3}]

InitQueue ==
    /\ disk = format_disk
    /\ hung = FALSE
    /\ result = NoResult
    /\ nops = 0
    /\ NoSession
    /\ regular_users = << >>
    /\ sched = Scheduler_init(TIME_QUANTUM)

\* clear_all_processes, once the question has been answered y
Scheduler_clear_all_processes(s) ==
    [s EXCEPT !.processes = << >>, !.ready_queue = << >>,
              !.current_process = NO_PROCESS, !.current_time = 0, !.pid_counter = 1]

\* run_simulation has printed that all processes are done
ReportedDone == result.op = "run_simulation" /\ result.ret = "done"

\* add_process(name, burst_time, priority, arrival_time), from main or from
\* the menu of a paused simulation
QueueAddProcess(burst_time, priority, arrival_time) ==
    /\ nops < MaxQueueAdds
    /\ ~ReportedDone
    /\ Len(sched.processes) < MaxQueueProcs
    /\ sched' = Scheduler_add_process(sched, burst_time, priority, arrival_time)
    /\ result' = [NoResult EXCEPT !.op = "add_process"]
    /\ nops' = nops + 1
    /\ UNCHANGED <<disk, hung, current_user, current_uid, current_gid, regular_users>>

\* clear_all_processes, answered y, from the menu of a paused simulation
QueueClearAllProcesses ==
    /\ nops < MaxQueueAdds
    /\ ~ReportedDone
    /\ sched' = Scheduler_clear_all_processes(sched)
    /\ result' = [NoResult EXCEPT !.op = "clear_all_processes"]
    /\ nops' = nops + 1
    /\ UNCHANGED <<disk, hung, current_user, current_uid, current_gid, regular_users>>

\* one turn of the loop of run_simulation: execute_time_slice(), then the
\* test that ends the loop
RunSimulationStep ==
    /\ nops < MaxQueueOps
    /\ ~ReportedDone
    /\ Scheduler_some_not_terminated(sched)
    /\ sched' = Scheduler_execute_time_slice(sched)
    /\ result' = [NoResult EXCEPT
                     !.op = "run_simulation",
                     !.ret = IF Scheduler_all_arrived_terminated(
                                    Scheduler_execute_time_slice(sched))
                             THEN "done" ELSE "none"]
    /\ nops' = nops + 1
    /\ UNCHANGED <<disk, hung, current_user, current_uid, current_gid, regular_users>>

NextQueue ==
    \/ \E p \in QueueInputs : QueueAddProcess(p.burst_time, p.priority, p.arrival_time)
    \/ QueueClearAllProcesses
    \/ RunSimulationStep

\* the steps of RunSimulationStep as nops shows them, enabled when
\* RunSimulationStep is
QueueStep ==
    /\ nops < MaxQueueOps
    /\ ~ReportedDone
    /\ Scheduler_some_not_terminated(sched)
    /\ nops' = nops + 1

\* run_simulation goes on while a process is not TERMINATED and it has not
\* reported the end
SpecQueue == InitQueue /\ [][NextQueue]_vars /\ WF_nops(QueueStep)

(***************************************************************************)
(* Observers used by the properties.                                       *)
(***************************************************************************)
\* the slots a directory scan reaches and takes for live records
LiveSlots(d) ==
    {s \in DirSlots : /\ FirstByte(d, s) # TOMBSTONE
                      /\ \A t \in DirSlots : t <= s => FirstByte(d, t) # 0}

\* walk of the FAT from cluster c: the clusters met, and how the walk ends
\* ("eoc": at END_OF_CHAIN, "free": at an entry that is 0, "cycle": at a
\* cluster already met)
RECURSIVE WalkChain(_, _, _)
WalkChain(d, c, seen) ==
    IF c = END_OF_CHAIN THEN [clusters |-> seen, end |-> "eoc"]
    ELSE IF c \in seen THEN [clusters |-> seen, end |-> "cycle"]
    ELSE IF FatEntry(d, c) = 0 THEN [clusters |-> seen, end |-> "free"]
    ELSE WalkChain(d, FatEntry(d, c), seen \cup {c})

ChainOf(d, s) == WalkChain(d, EntryFirstCluster(d.dir[s]), {})
CeilDiv(a, b) == (a + b - 1) \div b

WriteSucceeded ==
    result.op = "write_file" /\ result.exc = "none" /\ result.ret = "True" /\ ~hung

(***************************************************************************)
(* C1: write/read round trip.  After write_file(name, b) in replace mode   *)
(* has returned True, read_file(name) returns exactly b.                   *)
(***************************************************************************)
C1_WriteReadRoundTrip ==
    (WriteSucceeded /\ result.mode = "replace")
        => read_file(disk, result.name).bytes = result.content

(***************************************************************************)
(* C2: FAT chain well-formedness.  Every live directory record with        *)
(* first_cluster # 0 has a chain that reaches END_OF_CHAIN without meeting *)
(* a free entry or a cluster twice.                                        *)
(***************************************************************************)
C2_ChainWellFormed ==
    \A s \in LiveSlots(disk) :
        EntryFirstCluster(disk.dir[s]) # 0 => ChainOf(disk, s).end = "eoc"

(***************************************************************************)
(* C3: chain length matches size.  After a successful write that leaves    *)
(* the file with s > CLUSTER_SIZE bytes the chain has exactly              *)
(* ceil(s / CLUSTER_SIZE) clusters, and every live file satisfies          *)
(* file_size <= chain_cluster_count * CLUSTER_SIZE.                        *)
(***************************************************************************)
C3_ChainLengthMatchesSize ==
    /\ (WriteSucceeded /\ EntrySize(disk.dir[find_file_entry(disk, result.name)]) > CLUSTER_SIZE)
          => Cardinality(ChainOf(disk, find_file_entry(disk, result.name)).clusters)
               = CeilDiv(EntrySize(disk.dir[find_file_entry(disk, result.name)]), CLUSTER_SIZE)
    /\ \A s \in LiveSlots(disk) :
          EntrySize(disk.dir[s]) <= Cardinality(ChainOf(disk, s).clusters) * CLUSTER_SIZE

(***************************************************************************)
(* Observers of the scheduler.                                             *)
(***************************************************************************)
\* process pid waits in ordinary queue q / in the absolute queue
InQueue(s, q, pid) == \E i \in 1..Len(s.queues[q]) : s.queues[q][i].pid = pid
InAbsoluteQueue(s, pid) == \E i \in 1..Len(s.absolute_queue) : s.absolute_queue[i] = pid

\* the last call was add_process of an ABSOLUTE process (pid a) while a
\* non-absolute process is the RUNNING current process
AbsoluteJustAdded(a) ==
    /\ result.op = "add_process"
    /\ a = Len(sched.all_processes)
    /\ sched.all_processes[a].priority_type = "ABSOLUTE"
    /\ sched.current_process # NO_PROCESS
    /\ sched.all_processes[sched.current_process].priority_type # "ABSOLUTE"
    /\ sched.all_processes[sched.current_process].state = "RUNNING"

\* this step is a call of execute_time_slice
ExecuteStep == nops' = nops + 1 /\ result'.op = "execute_time_slice"

\* the events of a given kind appended by the last call
EventsOf(s, event) ==
    {s.scheduling_events[i].process :
        i \in {j \in 1..Len(s.scheduling_events) : s.scheduling_events[j].event = event}}

(***************************************************************************)
(* C4 as stated: absolute preemption.  If an ABSOLUTE process is added     *)
(* while a non-absolute process is the RUNNING current process, then after *)
(* the very next execute_time_slice the absolute process is the RUNNING    *)
(* current process, it is no longer in the absolute queue, the previous    *)
(* process is READY in its own queue, and total_context_switches has grown *)
(* by at least 1.                                                          *)
(***************************************************************************)
C4_AbsolutePreemptionAsStated ==
    [][\A a \in 1..Len(sched.all_processes) :
          (AbsoluteJustAdded(a) /\ ExecuteStep) =>
              /\ sched'.current_process = a
              /\ sched'.all_processes[a].state = "RUNNING"
              /\ ~InAbsoluteQueue(sched', a)
              /\ sched'.all_processes[sched.current_process].state = "READY"
              /\ InQueue(sched', sched.all_processes[sched.current_process].current_queue,
                         sched.current_process)
              /\ sched'.total_context_switches >= sched.total_context_switches + 1]_vars

(***************************************************************************)
(* C4, amended: if an ABSOLUTE process is added while a non-absolute       *)
(* process is the RUNNING current process, then in the very next           *)
(* execute_time_slice the head of the absolute queue (the added process if *)
(* no other absolute process waits) is removed from the queue and runs:    *)
(* after the step it is the RUNNING current process, or it is TERMINATED   *)
(* and the CPU is free if the slice covered all of its remaining time; the *)
(* previous process is READY in its own queue with quantum_used = 0;       *)
(* total_context_switches has grown by 2; an absolute process added behind *)
(* another one is still READY in the absolute queue and has not run.       *)
(***************************************************************************)
C4_AbsolutePreemption ==
    [][\A a \in 1..Len(sched.all_processes) :
          (AbsoluteJustAdded(a) /\ ExecuteStep) =>
              /\ sched'.absolute_queue = Tail(sched.absolute_queue)
              /\ sched'.all_processes[Head(sched.absolute_queue)].total_cpu_time >
                     sched.all_processes[Head(sched.absolute_queue)].total_cpu_time
              /\ \/ /\ sched'.current_process = Head(sched.absolute_queue)
                    /\ sched'.all_processes[Head(sched.absolute_queue)].state = "RUNNING"
                    /\ sched'.all_processes[Head(sched.absolute_queue)].remaining_time > 0
                 \/ /\ sched'.current_process = NO_PROCESS
                    /\ sched'.all_processes[Head(sched.absolute_queue)].state = "TERMINATED"
                    /\ sched'.all_processes[Head(sched.absolute_queue)].remaining_time <= 0
              /\ a # Head(sched.absolute_queue) =>
                    /\ InAbsoluteQueue(sched', a)
                    /\ sched'.all_processes[a].state = "READY"
                    /\ sched'.all_processes[a].total_cpu_time = 0
              /\ sched'.all_processes[sched.current_process].state = "READY"
              /\ sched'.all_processes[sched.current_process].quantum_used = 0
              /\ InQueue(sched', sched.all_processes[sched.current_process].current_queue,
                         sched.current_process)
              /\ sched'.total_context_switches = sched.total_context_switches + 2]_vars

\* an execute_time_slice has preempted a process for an absolute one that is
\* still running, with another absolute process left waiting
C4_Witness ==
    /\ result.op = "execute_time_slice"
    /\ EventsOf(sched, "preempt") # {}
    /\ sched.current_process \in EventsOf(sched, "start_absolute")
    /\ sched.all_processes[sched.current_process].state = "RUNNING"
    /\ sched.absolute_queue # << >>

(***************************************************************************)
(* C5: feedback demotion.  In a call of execute_time_slice, a non-absolute *)
(* process of queue q in {0, 1} that has run, has not terminated and whose *)
(* quantum_used has reached the quantum of queue q is in queue q + 1       *)
(* afterwards, READY, with quantum_used = 0, and the CPU is free; no       *)
(* process leaves queue 2 and no process's current_queue ever decreases.   *)
(***************************************************************************)
C5_FeedbackDemotion ==
    [][\A p \in 1..Len(sched.all_processes) :
          /\ sched'.all_processes[p].current_queue \in 0..2
          /\ sched'.all_processes[p].current_queue >= sched.all_processes[p].current_queue
          /\ ( /\ ExecuteStep
               /\ sched'.all_processes[p].total_cpu_time > sched.all_processes[p].total_cpu_time
               /\ sched.all_processes[p].priority_type # "ABSOLUTE"
               /\ sched.all_processes[p].current_queue \in {0, 1}
               /\ sched'.all_processes[p].remaining_time > 0
               /\ sched.all_processes[p].quantum_used
                    + (sched'.all_processes[p].total_cpu_time - sched.all_processes[p].total_cpu_time)
                    >= quantum_times(sched.all_processes[p].current_queue) )
             => /\ sched'.all_processes[p].current_queue = sched.all_processes[p].current_queue + 1
                /\ sched'.all_processes[p].quantum_used = 0
                /\ sched'.all_processes[p].state = "READY"
                /\ InQueue(sched', sched.all_processes[p].current_queue + 1, p)
                /\ sched'.current_process = NO_PROCESS]_vars

\* an execute_time_slice has moved a process from queue 1 to queue 2
C5_Witness ==
    /\ result.op = "execute_time_slice"
    /\ \E p \in EventsOf(sched, "move") :
          /\ sched.all_processes[p].current_queue = 2
          /\ sched.all_processes[p].state = "READY"
          /\ InQueue(sched, 2, p)

(***************************************************************************)
(* C6: selection rule.  Whenever a call of execute_time_slice dispatches a *)
(* process because there is no current process, the process is the head of *)
(* the absolute queue if that queue is not empty; otherwise it is taken    *)
(* from the lowest-numbered ordinary queue that is not empty.              *)
(***************************************************************************)
C6_SelectionRule ==
    [][ExecuteStep =>
          \A p \in EventsOf(sched', "start") :
              /\ sched.current_process = NO_PROCESS
              /\ IF sched.absolute_queue # << >> THEN p = Head(sched.absolute_queue)
                 ELSE \E k \in 0..2 :
                          /\ InQueue(sched, k, p)
                          /\ \A j \in 0..(k - 1) : sched.queues[j] = << >>]_vars

\* an execute_time_slice has dispatched a process of a queue before queue 2
\* (it is in queue 1 when the call returns) while another process waits in
\* queue 2
C6_Witness ==
    /\ result.op = "execute_time_slice"
    /\ \E p \in EventsOf(sched, "start") :
          /\ sched.all_processes[p].priority_type # "ABSOLUTE"
          /\ sched.all_processes[p].current_queue = 1
    /\ sched.queues[2] # << >>

(***************************************************************************)
(* Observers of the identity store.                                        *)
(***************************************************************************)
\* a user with login root and uid 0 is among the users read
HasRootAccount(users) ==
    \E k \in 1..Len(users) : users[k].login = STR_root /\ users[k].uid = 0

\* the record of root among the users read has an all-zero hash
RootHashIsZero(users) ==
    \E k \in 1..Len(users) :
        users[k].login = STR_root /\ users[k].password_hash = Zeros(PASSWORD_SIZE)

\* fields of a directory record, as list_directory reads them
EntryAttribute(entry) == entry[OFFSET_ATTRIBUTE + 1]
EntryUid(entry) == entry[OFFSET_UID + 1]
EntryGid(entry) == entry[OFFSET_GID + 1]

\* the directory holds a live record called name, owned by 0/0, with the
\* attribute bits SYSTEM|HIDDEN|READ_ONLY
IsReservedRecord(d, s) ==
    /\ s # NOT_FOUND
    /\ s \in LiveSlots(d)
    /\ EntryUid(d.dir[s]) = 0
    /\ EntryGid(d.dir[s]) = 0
    /\ EntryAttribute(d.dir[s]) = ATTR_SYSTEM + ATTR_HIDDEN + ATTR_READ_ONLY

(***************************************************************************)
(* C7: root account invariant.  After format and after any sequence of     *)
(* add_user, set_password and add_group calls, read_users_file() contains  *)
(* a user with login root and uid 0.                                       *)
(***************************************************************************)
C7_RootAccountPresent ==
    ~hung => HasRootAccount(read_users_file(disk))

(***************************************************************************)
(* C8: first-run predicate.  In every reachable state is_first_run() is    *)
(* true if and only if the stored record of root has an all-zero hash, and *)
(* once is_first_run() is false no later call makes it true again.         *)
(***************************************************************************)
C8_FirstRunPredicate ==
    /\ [](~hung => (is_first_run(disk) <=> RootHashIsZero(read_users_file(disk))))
    /\ [][(~hung' /\ ~is_first_run(disk)) => ~is_first_run(disk')]_vars

(***************************************************************************)
(* C9: the first-run flow cannot be bypassed.  When the first-run branch   *)
(* of authenticate() has handed out the session of root, a password of     *)
(* root is stored (the record of root has a non-zero hash).                *)
(***************************************************************************)
C9_FirstRunNotBypassed ==
    (result.op = "authenticate" /\ result.mode = "first_run" /\ current_uid = 0)
        => RootHasPassword(read_users_file(disk))

(***************************************************************************)
(* C10: reserved files.  After format and after any sequence of            *)
(* identity-store operations the directory holds live records named users  *)
(* and groups, each owned by uid 0 / gid 0 with the attribute bits         *)
(* SYSTEM|HIDDEN|READ_ONLY, and list_directory() returns neither.          *)
(***************************************************************************)
C10_ReservedFiles ==
    ~hung =>
        /\ IsReservedRecord(disk, find_file_entry(disk, STR_users))
        /\ IsReservedRecord(disk, find_file_entry(disk, STR_groups))
        /\ STR_users \notin list_directory(disk)
        /\ STR_groups \notin list_directory(disk)

(***************************************************************************)
(* Observers of delete_file.                                               *)
(***************************************************************************)
\* this step is a call of delete_file(name)
DeleteStep(name) ==
    nops' = nops + 1 /\ result'.op = "delete_file" /\ result'.name = name

\* the clusters of the chain that starts at the first cluster of slot s
FormerChain(d, s) ==
    IF EntryFirstCluster(d.dir[s]) = 0 THEN {} ELSE ChainOf(d, s).clusters

(***************************************************************************)
(* C11: delete.  delete_file(name) on an existing file returns True,       *)
(* tombstones its directory slot (the name is no longer found nor listed)  *)
(* and leaves every cluster of the file's former chain with FAT entry 0;   *)
(* delete_file on a missing name raises FileNotFoundError and changes      *)
(* nothing on the disk.                                                    *)
(***************************************************************************)
C11_Delete ==
    [][\A name \in FileNames :
          DeleteStep(name) =>
              IF find_file_entry(disk, name) # NOT_FOUND
              THEN /\ ~hung'
                   /\ result'.exc = "none" /\ result'.ret = "True"
                   /\ FirstByte(disk', find_file_entry(disk, name)) = TOMBSTONE
                   /\ find_file_entry(disk', name) = NOT_FOUND
                   /\ name \notin list_directory(disk')
                   /\ \A c \in FormerChain(disk, find_file_entry(disk, name)) :
                          FatEntry(disk', c) = 0
              ELSE /\ result'.exc = "FileNotFoundError"
                   /\ disk' = disk
                   /\ ~hung']_vars

\* C11 for the files whose chain is well formed (it ends at END_OF_CHAIN)
C11_DeleteOfWellFormed ==
    [][\A name \in FileNames :
          (/\ DeleteStep(name)
           /\ find_file_entry(disk, name) # NOT_FOUND
           /\ EntryFirstCluster(disk.dir[find_file_entry(disk, name)]) # 0
                 => ChainOf(disk, find_file_entry(disk, name)).end = "eoc")
          =>  IF find_file_entry(disk, name) # NOT_FOUND
              THEN /\ ~hung'
                   /\ result'.exc = "none" /\ result'.ret = "True"
                   /\ FirstByte(disk', find_file_entry(disk, name)) = TOMBSTONE
                   /\ find_file_entry(disk', name) = NOT_FOUND
                   /\ name \notin list_directory(disk')
                   /\ \A c \in FormerChain(disk, find_file_entry(disk, name)) :
                          FatEntry(disk', c) = 0
              ELSE /\ result'.exc = "FileNotFoundError"
                   /\ disk' = disk
                   /\ ~hung']_vars

(***************************************************************************)
(* Observers of add_user.                                                  *)
(***************************************************************************)
\* this step is a call add_user(login, password) with uid=None that returns
\* True for a login that was not stored before
AddUserStep(login, password) ==
    /\ nops' = nops + 1
    /\ result'.op = "add_user" /\ result'.name = login /\ result'.content = password
    /\ result'.exc = "none" /\ result'.ret = "True" /\ ~hung'
    /\ UserIndex(read_users_file(disk), login) = 0

(***************************************************************************)
(* C12: add_user postcondition.  After add_user(L, P) with uid=None has    *)
(* returned True for a login L not stored before, verify_password(L, P) is *)
(* true, verify_password(L, P') is false for every other password P', and  *)
(* the superblock max_uid is strictly greater than before, however many    *)
(* users were stored already.                                              *)
(***************************************************************************)
C12_AddUserPostcondition ==
    [][\A login \in NewLogins, password \in Passwords :
          AddUserStep(login, password) =>
              /\ verify_password(disk', login, password)
              /\ \A other \in Passwords \ {password} : ~verify_password(disk', login, other)
              /\ get_max_uid(disk') > get_max_uid(disk)]_vars

\* C12 for the logins that fit the 30-byte login field: holds, also when the
\* users file is longer than one cluster
C12_AddUserOfFittingLogin ==
    [][\A login \in LoginNames, password \in Passwords :
          AddUserStep(login, password) =>
              /\ verify_password(disk', login, password)
              /\ \A other \in Passwords \ {password} : ~verify_password(disk', login, other)
              /\ get_max_uid(disk') > get_max_uid(disk)]_vars

(***************************************************************************)
(* Observers of the permission checks.                                     *)
(***************************************************************************)
\* the permission bits stored in a directory record
EntryPermissions(entry) == UnpackBE(Slice(entry, OFFSET_PERMISSIONS, OFFSET_PERMISSIONS + 2))

\* the last call was check_file_permission(name, uid, gid, operation) on a
\* file that exists
CheckedFile ==
    /\ result.op = "check_file_permission"
    /\ find_file_entry(disk, result.name) # NOT_FOUND

\* the record the last check_file_permission was about
CheckedEntry == disk.dir[find_file_entry(disk, result.name)]

\* the attribute bits of the specification: bit 0 READ_ONLY, bit 2 SYSTEM
IsSystem(attributes) == HasBit(attributes, ATTR_SYSTEM)
IsReadOnly(attributes) == HasBit(attributes, ATTR_READ_ONLY)

\* the attribute gate decides nothing for a non-root caller
GateUndecided(attributes, operation) ==
    /\ ~IsSystem(attributes)
    /\ ~IsReadOnly(attributes) \/ operation = "execute"

\* the bit of the first matching triad (owner, group, other) for an operation
TriadBit(entry, uid, gid, operation) ==
    LET weight == IF operation = "read" THEN 4 ELSE IF operation = "execute" THEN 1 ELSE 2
    IN  IF uid = EntryUid(entry) THEN 64 * weight
        ELSE IF gid = EntryGid(entry) THEN 8 * weight
        ELSE weight

(***************************************************************************)
(* C13: UNIX rwx triad, first match only.  For a non-root caller and a     *)
(* file on which the attribute gate makes no decision,                     *)
(* check_file_permission answers with the owner bits if the caller's uid   *)
(* is the file's uid, otherwise with the group bits if the caller's gid is *)
(* the file's gid, otherwise with the other bits; delete and rename need   *)
(* the write bit.                                                          *)
(***************************************************************************)
C13_RwxTriad ==
    (/\ CheckedFile
     /\ result.content[1] # 0
     /\ GateUndecided(EntryAttribute(CheckedEntry), result.mode))
        => /\ result.exc = "none"
           /\ result.ret = IF HasBit(EntryPermissions(CheckedEntry),
                                     TriadBit(CheckedEntry, result.content[1],
                                              result.content[2], result.mode))
                           THEN "True" ELSE "False"

(***************************************************************************)
(* C14: the attribute gate decodes bits.  For every attribute byte 0..255  *)
(* check_attributes treats the file as SYSTEM exactly when bit 2 is set    *)
(* and as READ_ONLY exactly when bit 0 is set: a non-root caller is denied *)
(* exactly when SYSTEM is set, or READ_ONLY is set and the operation is    *)
(* write, delete or rename; read is allowed outright when READ_ONLY is set *)
(* and SYSTEM is not; otherwise the gate decides nothing.                  *)
(***************************************************************************)
C14_AttributeGate ==
    (result.op = "check_attributes" /\ result.content[2] = 0)
        => result.ret =
              IF IsSystem(result.content[1]) THEN "False"
              ELSE IF IsReadOnly(result.content[1]) /\ result.mode = "read" THEN "True"
              ELSE IF IsReadOnly(result.content[1])
                      /\ result.mode \in {"write", "delete", "rename"} THEN "False"
              ELSE "None"

\* C14 for the attribute bytes below 8, the only ones the subtractions of
\* check_attributes decode like bit tests
C14_AttributeGateBelow8 ==
    (result.op = "check_attributes" /\ result.content[2] = 0 /\ result.content[1] < 8)
        => result.ret =
              IF IsSystem(result.content[1]) THEN "False"
              ELSE IF IsReadOnly(result.content[1]) /\ result.mode = "read" THEN "True"
              ELSE IF IsReadOnly(result.content[1])
                      /\ result.mode \in {"write", "delete", "rename"} THEN "False"
              ELSE "None"

(***************************************************************************)
(* C15: root bypass.  For current_uid = 0 check_file_permission returns    *)
(* True for read, write, execute, delete and rename on every existing      *)
(* file, whatever its attribute byte, owner, group and permission bits.    *)
(***************************************************************************)
C15_RootBypass ==
    (CheckedFile /\ result.content[1] = 0)
        => result.exc = "none" /\ result.ret = "True"

\* root has been allowed to write a SYSTEM file owned by somebody else whose
\* permission bits are all 0, and whose record holds a first cluster
C15_Witness ==
    /\ CheckedFile /\ result.content[1] = 0
    /\ result.mode = "write" /\ result.ret = "True"
    /\ EntryAttribute(CheckedEntry) = ATTR_SYSTEM
    /\ EntryUid(CheckedEntry) # 0
    /\ EntryPermissions(CheckedEntry) = 0
    /\ EntryFirstCluster(CheckedEntry) # 0

(***************************************************************************)
(* Observers of the order inside a queue.                                  *)
(***************************************************************************)
\* the processes waiting in round-robin queue q
QueueMembers(s, q) == {s.queues[q][i].pid : i \in 1..Len(s.queues[q])}

\* this step is an execute_time_slice that finds the CPU free and no absolute
\* process waiting, and takes process p from round-robin queue q
TakenFromQueue(p, q) ==
    /\ ExecuteStep
    /\ sched.current_process = NO_PROCESS
    /\ sched.absolute_queue = << >>
    /\ q \in {0, 1}
    /\ p \in QueueMembers(sched, q)
    /\ p \in EventsOf(sched', "start")

\* dynamic_priority of pid at the moment the queue is asked, i.e. after the
\* aging done at the start of the call
CurrentPriority(s, pid) == update_dynamic_priorities(s).all_processes[pid].dynamic_priority

\* pid waits in queue 0 since it was added: it has never run
WaitsSinceAdded(s, pid) ==
    /\ s.all_processes[pid].current_queue = 0
    /\ s.all_processes[pid].total_cpu_time = 0
    /\ s.all_processes[pid].times_executed = 0

\* among the DYNAMIC processes of the queue the one taken has the lowest
\* current dynamic_priority, ties broken by arrival_time
DynamicOrder(p, q) ==
    \A o \in QueueMembers(sched, q) \ {p} :
        (/\ sched.all_processes[p].priority_type = "DYNAMIC"
         /\ sched.all_processes[o].priority_type = "DYNAMIC")
        => \/ CurrentPriority(sched, p) < CurrentPriority(sched, o)
           \/ /\ CurrentPriority(sched, p) = CurrentPriority(sched, o)
              /\ sched.all_processes[p].arrival_time <= sched.all_processes[o].arrival_time

\* among the RELATIVE processes that wait in the queue since they were added
\* (so that the order of insertion is the order of the pids) the one taken
\* was inserted first
RelativeFifo(p, q) ==
    \A o \in QueueMembers(sched, q) \ {p} :
        (/\ sched.all_processes[p].priority_type = "RELATIVE"
         /\ sched.all_processes[o].priority_type = "RELATIVE"
         /\ WaitsSinceAdded(sched, p) /\ WaitsSinceAdded(sched, o))
        => p < o

(***************************************************************************)
(* C16: order inside a round-robin queue.  When a process is taken from    *)
(* queue 0 or 1, among the DYNAMIC processes of the queue it is the one    *)
(* with the lowest current dynamic_priority (ties by arrival_time), and    *)
(* among the RELATIVE processes it is the one inserted first, whatever the *)
(* relative_priority and the aging of the waiting processes.               *)
(***************************************************************************)
C16_OrderInQueue ==
    [][\A p \in 1..Len(sched.all_processes), q \in {0, 1} :
          TakenFromQueue(p, q) => DynamicOrder(p, q) /\ RelativeFifo(p, q)]_vars

\* the DYNAMIC half of C16 alone
C16_DynamicOrderOnly ==
    [][\A p \in 1..Len(sched.all_processes), q \in {0, 1} :
          TakenFromQueue(p, q) => DynamicOrder(p, q)]_vars

(***************************************************************************)
(* Observers of aging.                                                     *)
(***************************************************************************)
\* this step is an execute_time_slice(1) during which simulated time advances
\* by one second while process p stays READY without running
WaitsOneSecond(p) ==
    /\ ExecuteStep
    /\ sched.all_processes[p].state = "READY"
    /\ sched'.all_processes[p].state = "READY"
    /\ sched'.all_processes[p].total_cpu_time = sched.all_processes[p].total_cpu_time
    /\ sched'.all_processes[p].waiting_time = sched.all_processes[p].waiting_time + 1
    /\ sched'.current_time = sched.current_time + 1

(***************************************************************************)
(* C17: aging of waiters.  A DYNAMIC process that stays READY while        *)
(* simulated time advances by N whole seconds in steps of 1 ends with      *)
(* dynamic_priority = max(1, p - N), p being its dynamic_priority when the *)
(* wait began.  Stated for one step (N = 1), from which every N follows:   *)
(* each second of waiting lowers dynamic_priority by 1, down to 1.         *)
(***************************************************************************)
C17_AgingOfWaiters ==
    [][\A p \in 1..Len(sched.all_processes) :
          (WaitsOneSecond(p) /\ sched.all_processes[p].priority_type = "DYNAMIC")
          => sched'.all_processes[p].dynamic_priority =
                 Max(1, sched.all_processes[p].dynamic_priority - 1)]_vars

\* C17 for the steps that start later than the last aging: there the second
\* of waiting lowers dynamic_priority by 1
C17_AgingAfterTimeAdvanced ==
    [][\A p \in 1..Len(sched.all_processes) :
          (/\ WaitsOneSecond(p)
           /\ sched.all_processes[p].priority_type = "DYNAMIC"
           /\ sched.current_time - sched.last_update_time >= 1)
          => sched'.all_processes[p].dynamic_priority =
                 Max(1, sched.all_processes[p].dynamic_priority - 1)]_vars

(***************************************************************************)
(* Observers of scenario 6: RELATIVE processes A (burst 6, priority 1) and *)
(* then B (burst 4, priority 2), both added at time 0, stepped by 1.       *)
(***************************************************************************)
\* pids are handed out in the order of the calls of add_process
PID_A == NewScheduler.pid_counter
PID_B == PID_A + 1
IsRunInput(process, burst_time, relative_priority) ==
    /\ process.burst_time = burst_time
    /\ process.relative_priority = relative_priority
    /\ process.priority_type = "RELATIVE"
    /\ process.arrival_time = 0
Scenario6 ==
    /\ Len(sched.all_processes) = 2
    /\ IsRunInput(sched.all_processes[PID_A], 6, 1)
    /\ IsRunInput(sched.all_processes[PID_B], 4, 2)
\* the number of times process pid was dispatched from a queue
Dispatches(s, pid) ==
    Cardinality({i \in 1..Len(s.scheduling_events) :
                    /\ s.scheduling_events[i].event \in {"start", "start_absolute"}
                    /\ s.scheduling_events[i].process = pid})
Finished(s, pid) == s.all_processes[pid].state = "TERMINATED"

(***************************************************************************)
(* C18: scenario 6, process A.  When current_time reaches 2, A is in queue *)
(* 1 with quantum_used = 0; A is TERMINATED with completion_time <= 10     *)
(* (time does not reach 10 with A unfinished); and total_context_switches  *)
(* >= 3 once both have finished.                                           *)
(***************************************************************************)
C18_Scenario6A ==
    Scenario6 =>
        /\ sched.current_time = 2 =>
              /\ InQueue(sched, 1, PID_A)
              /\ sched.all_processes[PID_A].current_queue = 1
              /\ sched.all_processes[PID_A].quantum_used = 0
        /\ sched.current_time >= 10 => Finished(sched, PID_A)
        /\ Finished(sched, PID_A) => sched.all_processes[PID_A].completion_time <= 10
        /\ (Finished(sched, PID_A) /\ Finished(sched, PID_B))
              => sched.total_context_switches >= 3

\* scenario 6 has run to the end: both processes have finished
C18_Witness ==
    /\ Scenario6
    /\ Finished(sched, PID_A)
    /\ Finished(sched, PID_B)
    /\ sched.current_time = 10

(***************************************************************************)
(* C19 as stated: scenario 6, process B.  In the run of scenario 6, B is   *)
(* TERMINATED by the time current_time reaches 6, and B was dispatched at  *)
(* most twice.                                                             *)
(***************************************************************************)
C19_Scenario6BAsStated ==
    Scenario6 =>
        /\ sched.current_time >= 6 => Finished(sched, PID_B)
        /\ Dispatches(sched, PID_B) <= 2

(***************************************************************************)
(* C19: scenario 6, process B.  B runs its quantum of queue 0 from time 2  *)
(* to 4, waits in queue 1 behind A, which entered queue 1 first, until A   *)
(* has finished at time 8, and is TERMINATED at time 10; at time 6 it is   *)
(* READY in queue 1 with 2 units left.  B was dispatched at most twice,    *)
(* and exactly twice once it has finished.                                 *)
(***************************************************************************)
C19_Scenario6B ==
    Scenario6 =>
        /\ sched.current_time >= 10 => Finished(sched, PID_B)
        /\ Finished(sched, PID_B) =>
              /\ sched.all_processes[PID_B].completion_time = 10
              /\ Dispatches(sched, PID_B) = 2
        /\ sched.current_time = 6 =>
              /\ sched.all_processes[PID_B].state = "READY"
              /\ InQueue(sched, 1, PID_B)
              /\ sched.all_processes[PID_B].remaining_time = 2
        /\ Dispatches(sched, PID_B) <= 2

\* B has finished in scenario 6 after its second dispatch
C19_Witness ==
    /\ Scenario6
    /\ Finished(sched, PID_B)
    /\ Dispatches(sched, PID_B) = 2
    /\ sched.scheduling_events[Len(sched.scheduling_events)].event = "terminate"
    /\ sched.scheduling_events[Len(sched.scheduling_events)].process = PID_B

(***************************************************************************)
(* Observers of the tie-break.                                             *)
(***************************************************************************)
\* the item of process pid in round-robin queue q, and its place there
ItemOf(s, q, pid) == s.queues[q][CHOOSE i \in 1..Len(s.queues[q]) : s.queues[q][i].pid = pid]
PlaceOf(s, q, pid) == CHOOSE i \in 1..Len(s.queues[q]) : s.queues[q][i].pid = pid
\* the candidates of queue q that have the priority key of p
SameKey(s, q, p) ==
    {o \in QueueMembers(s, q) \ {p} : ItemOf(s, q, o).priority_key = ItemOf(s, q, p).priority_key}
\* a call produces the events that execute_time_slice computes from the
\* scheduler before the call and the time slice
SameCallsSameEvents ==
    ExecuteStep =>
        \E time_slice \in TimeSlices :
            sched'.scheduling_events =
                execute_time_slice([sched EXCEPT !.scheduling_events = << >>],
                                   time_slice).scheduling_events

(***************************************************************************)
(* C20: deterministic ordering with pid tie-break.  The same calls produce *)
(* the same dispatch, preemption and termination events, and whenever      *)
(* several candidates of the selected queue have the same priority key,    *)
(* the one with the smaller arrival_time and, for equal arrival_time, the  *)
(* smaller pid is dispatched first.                                        *)
(***************************************************************************)
C20_PidTieBreak ==
    [][/\ SameCallsSameEvents
       /\ \A p \in 1..Len(sched.all_processes) : \A q \in {0, 1} :
             TakenFromQueue(p, q) =>
                 \A o \in SameKey(sched, q, p) :
                     \/ ItemOf(sched, q, p).arrival_time < ItemOf(sched, q, o).arrival_time
                     \/ /\ ItemOf(sched, q, p).arrival_time = ItemOf(sched, q, o).arrival_time
                        /\ p < o]_vars

\* C20 with the tie-break the sort has: among the candidates with the same
\* priority key and the same arrival_time the one ahead in the queue is taken
C20_QueuePlaceTieBreak ==
    [][/\ SameCallsSameEvents
       /\ \A p \in 1..Len(sched.all_processes) : \A q \in {0, 1} :
             TakenFromQueue(p, q) =>
                 \A o \in SameKey(sched, q, p) :
                     \/ ItemOf(sched, q, p).arrival_time < ItemOf(sched, q, o).arrival_time
                     \/ /\ ItemOf(sched, q, p).arrival_time = ItemOf(sched, q, o).arrival_time
                        /\ PlaceOf(sched, q, p) < PlaceOf(sched, q, o)]_vars

(***************************************************************************)
(* C21: dispatch accounting.  In every reachable state each process's      *)
(* times_executed equals the number of times the process was dispatched    *)
(* (went from READY to RUNNING); in particular a process that has          *)
(* terminated has times_executed >= 1.                                     *)
(***************************************************************************)
C21_DispatchAccounting ==
    \A p \in 1..Len(sched.all_processes) :
        /\ sched.all_processes[p].times_executed = Dispatches(sched, p)
        /\ Finished(sched, p) => sched.all_processes[p].times_executed >= 1

\* what times_executed counts: the moves of the process to the next queue
\* (and its preemptions, of which a run of RELATIVE processes has none)
C21_CountsQueueMoves ==
    \A p \in 1..Len(sched.all_processes) :
        sched.all_processes[p].times_executed =
            Cardinality({i \in 1..Len(sched.scheduling_events) :
                            /\ sched.scheduling_events[i].event \in {"move", "preempt"}
                            /\ sched.scheduling_events[i].process = p})

(***************************************************************************)
(* Observers of allocation.                                                *)
(***************************************************************************)
\* the data clusters whose FAT entry is 0, and those of them that
\* find_free_cluster looks at
FreeDataClusters(d) == {c \in DataClusters : is_cluster_free(d, c)}
SweptClusters == DATA_START_CLUSTER .. (DATA_START_CLUSTER + FREE_SWEEP - 1)
\* the last call was a write_file that failed for lack of a cluster: none for
\* the first cluster (Exception) or none to extend the chain (struct.error
\* raised by mark_cluster_used(current_cluster, -1))
WriteFoundNoCluster ==
    /\ result.op = "write_file"
    /\ result.exc \in {"Exception", "struct.error"}

(***************************************************************************)
(* C22: allocation completeness.  find_free_cluster returns a cluster      *)
(* whose FAT entry is 0 whenever at least one cluster of the data region   *)
(* is free, so a write fails for lack of space only when no free data      *)
(* cluster remains.                                                        *)
(***************************************************************************)
C22_AllocationCompleteness ==
    /\ FreeDataClusters(disk) # {} => find_free_cluster(disk) \in FreeDataClusters(disk)
    /\ WriteFoundNoCluster => FreeDataClusters(disk) = {}

\* C22 within the range find_free_cluster sweeps: a free cluster of the
\* range is found, and a write fails for lack of space only when the range
\* holds no free cluster
C22_CompleteWithinSweep ==
    /\ FreeDataClusters(disk) \cap SweptClusters # {}
          => find_free_cluster(disk) \in FreeDataClusters(disk) \cap SweptClusters
    /\ WriteFoundNoCluster => FreeDataClusters(disk) \cap SweptClusters = {}

(***************************************************************************)
(* Observers of a failed write.                                            *)
(***************************************************************************)
\* the live record of the file of the last call, NOT_FOUND if there is none
ResultSlot == find_file_entry(disk, result.name)
\* the record of slot s has a terminated chain that can hold its size
ChainHoldsSize(d, s) ==
    /\ EntryFirstCluster(d.dir[s]) # 0 => ChainOf(d, s).end = "eoc"
    /\ EntrySize(d.dir[s]) <= Cardinality(ChainOf(d, s).clusters) * CLUSTER_SIZE

(***************************************************************************)
(* C23: failure atomicity of write.  When write_file fails because no      *)
(* cluster is available (for the first cluster or during chain extension,  *)
(* in replace, append or overwrite mode), an error is reported to the      *)
(* caller and afterwards the file is still present, its chain is           *)
(* terminated, and its recorded size does not exceed its chain capacity.   *)
(***************************************************************************)
C23_WriteFailureAtomicity ==
    WriteFoundNoCluster =>
        /\ result.exc # "none"
        /\ ResultSlot # NOT_FOUND
        /\ ChainHoldsSize(disk, ResultSlot)

\* C23 for the failure to find a first cluster: nothing has been written, the
\* file is present (created by the call if it was missing) and has the chain
\* and the size it had
C23_NoFirstCluster ==
    (WriteFoundNoCluster /\ result.exc = "Exception" /\ result.mode # "overwrite") =>
        /\ ResultSlot # NOT_FOUND
        /\ EntryFirstCluster(disk.dir[ResultSlot]) = 0
        /\ EntrySize(disk.dir[ResultSlot]) = 0

(***************************************************************************)
(* Observers of append.                                                    *)
(***************************************************************************)
\* this step is write_file(name, data, append=True) on a file that exists
\* and can be read
AppendStep(name, data) ==
    /\ nops' = nops + 1
    /\ result'.op = "write_file"
    /\ result'.mode = "append"
    /\ result'.name = name
    /\ result'.content = data
    /\ find_file_entry(disk, name) # NOT_FOUND
    /\ ~Failed(read_file(disk, name))
\* the clusters the file in slot s may use: those of its chain and the free ones
ClustersFor(d, s) == ChainOf(d, s).clusters \cup FreeDataClusters(d)
\* n bytes fit in the free space left to the file called name
FitsInFreeSpace(d, name, n) ==
    CeilDiv(n, CLUSTER_SIZE) <= Cardinality(ClustersFor(d, find_file_entry(d, name)))
\* after the step the file called name reads as bytes and has that size
ReadsAs(name, bytes) ==
    /\ ~hung' /\ result'.exc = "none" /\ result'.ret = "True"
    /\ read_file(disk', name).bytes = bytes
    /\ EntrySize(disk'.dir[find_file_entry(disk', name)]) = Len(bytes)

(***************************************************************************)
(* C24: append.  For an existing file whose content is c (as returned by   *)
(* read_file) and any data d such that c + d fits in free space,           *)
(* write_file(name, d, append=True) followed by read_file(name) returns c  *)
(* followed by d, and the recorded size is len(c) + len(d).                *)
(***************************************************************************)
C24_Append ==
    [][\A name \in FileNames : \A n \in ContentLengths :
          (/\ AppendStep(name, Content(nops + 1, n))
           /\ FitsInFreeSpace(disk, name, Len(read_file(disk, name).bytes) + n))
          => ReadsAs(name, read_file(disk, name).bytes \o Content(nops + 1, n))]_vars

\* C24 for a file with a well-formed chain and a result that fits in the
\* file's first cluster: no cluster has to be allocated
C24_AppendWithinOneCluster ==
    [][\A name \in FileNames : \A n \in ContentLengths :
          (/\ AppendStep(name, Content(nops + 1, n))
           /\ EntryFirstCluster(disk.dir[find_file_entry(disk, name)]) # 0
           /\ ChainOf(disk, find_file_entry(disk, name)).end = "eoc"
           /\ Len(read_file(disk, name).bytes) + n > 0
           /\ Len(read_file(disk, name).bytes) + n <= CLUSTER_SIZE
           /\ FitsInFreeSpace(disk, name, Len(read_file(disk, name).bytes) + n))
          => ReadsAs(name, read_file(disk, name).bytes \o Content(nops + 1, n))]_vars

(***************************************************************************)
(* Observers of create-then-write.                                         *)
(***************************************************************************)
\* this step is create_file(name, uid, gid) of a new name with a directory
\* slot to take
CreatesNew(name, owner) ==
    /\ nops' = nops + 1
    /\ result'.op = "create_file"
    /\ result'.name = name
    /\ result'.content = owner
    /\ find_file_entry(disk, name) = NOT_FOUND
    /\ find_free_directory_entry(disk) # NOT_FOUND
\* this step is write_file(name, "hello") on a file created before
WritesHello(name) ==
    /\ nops' = nops + 1
    /\ result'.op = "write_file"
    /\ result'.name = name
    /\ result'.content = STR_hello
    /\ result'.mode = "replace"
    /\ find_file_entry(disk, name) # NOT_FOUND
\* after the step the call has returned True and the record of name shows
\* the owner and the default permissions
RecordedFor(name, uid, gid) ==
    /\ ~hung' /\ result'.exc = "none" /\ result'.ret = "True"
    /\ find_file_entry(disk', name) # NOT_FOUND
    /\ EntryUid(disk'.dir[find_file_entry(disk', name)]) = uid
    /\ EntryGid(disk'.dir[find_file_entry(disk', name)]) = gid
    /\ EntryPermissions(disk'.dir[find_file_entry(disk', name)]) = DEFAULT_PERMISSIONS
\* after the step the file reads "hello" and its record shows size 5 and a
\* first cluster of the data region
HoldsHello(name) ==
    /\ read_file(disk', name).bytes = STR_hello
    /\ EntrySize(disk'.dir[find_file_entry(disk', name)]) = Len(STR_hello)
    /\ EntryFirstCluster(disk'.dir[find_file_entry(disk', name)]) >= DATA_START_CLUSTER

(***************************************************************************)
(* C25: create-then-write record.  For a new name and any owner ids passed *)
(* (the scenario uses uid = 1000, gid = 100), create_file(name, uid, gid)  *)
(* succeeds and, after write_file(name, "hello"), read_file(name) returns  *)
(* "hello" and the directory record shows size = 5, first_cluster >= 447,  *)
(* permissions 0o644, and exactly the uid and gid passed to create.        *)
(***************************************************************************)
C25_CreateThenWrite ==
    [][\A name \in FileNames :
          /\ \A owner \in CreateOwners :
                CreatesNew(name, owner) => RecordedFor(name, owner[1], owner[2])
          /\ WritesHello(name) =>
                /\ RecordedFor(name, EntryUid(disk.dir[find_file_entry(disk, name)]),
                                     EntryGid(disk.dir[find_file_entry(disk, name)]))
                /\ HoldsHello(name)]_vars

\* C25 for the owner ids that fit the one-byte uid and gid fields of a record
C25_OwnerFitsByte ==
    [][\A name \in FileNames :
          /\ \A owner \in CreateOwners :
                (CreatesNew(name, owner) /\ FitsByte(owner[1]) /\ FitsByte(owner[2]))
                => RecordedFor(name, owner[1], owner[2])
          /\ WritesHello(name) =>
                /\ RecordedFor(name, EntryUid(disk.dir[find_file_entry(disk, name)]),
                                     EntryGid(disk.dir[find_file_entry(disk, name)]))
                /\ HoldsHello(name)]_vars

(***************************************************************************)
(* Observers of the names.                                                 *)
(***************************************************************************)
\* no two live records have the same name
NamesUnique(d) ==
    \A s \in LiveSlots(d) : \A t \in LiveSlots(d) :
        s # t => EntryName(d.dir[s]) # EntryName(d.dir[t])
\* no record lies behind a slot that reads as never used
NoneHidden(d) ==
    \A s \in DirSlots : FirstByte(d, s) # 0 => \A t \in DirSlots : t < s => FirstByte(d, t) # 0
\* this step is create_file(name, ...) although a live record has that name
CreatesExisting(name) ==
    /\ nops' = nops + 1
    /\ result'.op = "create_file"
    /\ result'.name = name
    /\ find_file_entry(disk, name) # NOT_FOUND
\* this step is rename_file(old, new) of a live record although a live record
\* is called new
RenamesToExisting(old, new) ==
    /\ nops' = nops + 1
    /\ result'.op = "rename_file"
    /\ result'.name = old
    /\ result'.content = new
    /\ find_file_entry(disk, old) # NOT_FOUND
    /\ find_file_entry(disk, new) # NOT_FOUND
\* the call is refused because the name exists (ValueError) and the
\* directory is as it was
RefusedUnchanged ==
    /\ result'.exc = "ValueError"
    /\ disk'.dir = disk.dir
\* create of an existing name and rename to an existing name are refused
ExistingNameRefused ==
    \A name \in FileNames :
        /\ CreatesExisting(name) => RefusedUnchanged
        /\ \A new \in NewNames : RenamesToExisting(name, new) => RefusedUnchanged

(***************************************************************************)
(* C26: name uniqueness.  After any sequence of create, write (overwrite   *)
(* mode included), delete and rename, no two live directory records have   *)
(* the same name; create of an existing name and rename to an existing     *)
(* name fail (ValueError) and leave the directory unchanged.               *)
(***************************************************************************)
C26_NameUniqueness ==
    /\ []NamesUnique(disk)
    /\ [][ExistingNameRefused]_vars

\* C26 step by step, renames to the empty name apart: a call on a directory
\* with unique names and no hidden record leaves such a directory, and the
\* calls that name an existing file are refused
C26_UniqueUnlessRenamedToEmpty ==
    [][/\ ExistingNameRefused
       /\ (/\ NamesUnique(disk) /\ NoneHidden(disk)
           /\ ~(result'.op = "rename_file" /\ result'.content = STR_empty))
          => (NamesUnique(disk') /\ NoneHidden(disk'))]_vars

(***************************************************************************)
(* Observers of the directory's capacity.                                  *)
(***************************************************************************)
\* every slot of the root directory holds a live record
DirectoryFull(d) == LiveSlots(d) = DirSlots
\* the slots that have been used (live records and tombstones), the tombstones
UsedSlots(d) == {s \in DirSlots : FirstByte(d, s) # 0}
Tombstones(d) == {s \in DirSlots : FirstByte(d, s) = TOMBSTONE}
\* the directory after one file of a full directory has been deleted
FullButOne(d) ==
    /\ UsedSlots(d) = DirSlots
    /\ Cardinality(Tombstones(d)) = 1
\* this step is create_file of a name that no live record has
CreatesNewName(name) ==
    /\ nops' = nops + 1
    /\ result'.op = "create_file"
    /\ result'.name = name
    /\ find_file_entry(disk, name) = NOT_FOUND
\* this step is delete_file of a live record
DeletesLive(name) ==
    /\ nops' = nops + 1
    /\ result'.op = "delete_file"
    /\ result'.name = name
    /\ find_file_entry(disk, name) # NOT_FOUND

(***************************************************************************)
(* C27: directory capacity.  create_file of a new name fails with the      *)
(* directory-full error (Exception) exactly when every slot of the root    *)
(* directory holds a live record; after one file of a full directory has   *)
(* been deleted, the create of a new name succeeds and takes the           *)
(* tombstoned slot, so that the slots in use are the same as before.       *)
(***************************************************************************)
C27_DirectoryCapacity ==
    [][\A name \in DirNames :
          /\ CreatesNewName(name) => (result'.exc = "Exception" <=> DirectoryFull(disk))
          /\ (DeletesLive(name) /\ DirectoryFull(disk)) =>
                (~hung' /\ FullButOne(disk') /\ Tombstones(disk') = {find_file_entry(disk, name)})
          /\ (CreatesNewName(name) /\ FullButOne(disk)) =>
                /\ result'.exc = "none" /\ result'.ret = "True"
                /\ {find_file_entry(disk', name)} = Tombstones(disk)
                /\ UsedSlots(disk') = UsedSlots(disk)
                /\ DirectoryFull(disk')]_vars

\* the directory is full again: c has been created in the slot of a deleted
\* file, ahead of b
C27_Witness ==
    /\ result.op = "create_file"
    /\ result.name = STR_c
    /\ result.exc = "none"
    /\ DirectoryFull(disk)
    /\ find_file_entry(disk, STR_b) # NOT_FOUND
    /\ find_file_entry(disk, STR_c) < find_file_entry(disk, STR_b)
    /\ nops = 4

(***************************************************************************)
(* Observers of the id counters.                                           *)
(***************************************************************************)
\* the uids of the users file and the gids of the groups file
StoredUids(d) == {read_users_file(d)[i].uid : i \in 1..Len(read_users_file(d))}
StoredGids(d) == {read_groups_file(d)[i].gid : i \in 1..Len(read_groups_file(d))}
\* the superblock counters are not below any id stored
CountersCoverIds(d) ==
    /\ \A uid \in StoredUids(d) : get_max_uid(d) >= uid
    /\ \A gid \in StoredGids(d) : get_max_gid(d) >= gid
\* the counters do not decrease in this step
CountersNeverDecrease ==
    /\ get_max_uid(disk') >= get_max_uid(disk)
    /\ get_max_gid(disk') >= get_max_gid(disk)
\* the ids this step has issued automatically (the counter has moved and a
\* record has been added) were not in use before
IssuedIdsAreFresh ==
    /\ (/\ get_max_uid(disk') = get_max_uid(disk) + 1
        /\ Len(read_users_file(disk')) = Len(read_users_file(disk)) + 1)
          => read_users_file(disk')[Len(read_users_file(disk'))].uid \notin StoredUids(disk)
    /\ (/\ get_max_gid(disk') = get_max_gid(disk) + 1
        /\ Len(read_groups_file(disk')) = Len(read_groups_file(disk)) + 1)
          => read_groups_file(disk')[Len(read_groups_file(disk'))].gid \notin StoredGids(disk)

(***************************************************************************)
(* C28: id counters.  max_uid and max_gid of the superblock never          *)
(* decrease, and after every add_user / add_group (with an automatic or an *)
(* explicitly supplied id) max_uid >= every uid stored in users and        *)
(* max_gid >= every gid stored in groups, so that an id issued             *)
(* automatically is never one already in use.                              *)
(***************************************************************************)
C28_IdCounters ==
    /\ []CountersCoverIds(disk)
    /\ [][CountersNeverDecrease /\ IssuedIdsAreFresh]_vars

\* what holds of the counters: they never decrease, max_uid covers the uids
\* (add_user is always called without a uid), and the ids added are fresh
C28_CountersMonotone ==
    /\ [](\A uid \in StoredUids(disk) : get_max_uid(disk) >= uid)
    /\ [][CountersNeverDecrease /\ IssuedIdsAreFresh]_vars

(***************************************************************************)
(* C29  rm authorization.                                                  *)
(***************************************************************************)
\* the file rm is asked to delete, before the command
RmEntry == disk.dir[find_file_entry(disk, result'.name)]

\* the command rm was typed for an existing file
RmOfExisting ==
    /\ result'.op = "rm"
    /\ find_file_entry(disk, result'.name) # NOT_FOUND

\* root, or the owner of a file whose owner write bit is set
RmAllowed ==
    \/ result'.content.uid = 0
    \/ /\ result'.content.uid = EntryUid(RmEntry)
       /\ HasBit(EntryPermissions(RmEntry), 128)

\* C29: rm of an existing file deletes it when the caller is root (whatever
\* the owner and the rwx bits) or the owner holding the write bit; for any
\* other caller it raises PermissionError and leaves the file and its
\* clusters unchanged
C29_RmAuthorization ==
    [][RmOfExisting =>
         IF RmAllowed
         THEN /\ result'.exc = "none"
              /\ find_file_entry(disk', result'.name) = NOT_FOUND
         ELSE /\ result'.exc = "PermissionError"
              /\ disk' = disk]_vars

\* what holds for every caller: rm never changes the image unless it
\* returns, and a caller who is neither root nor the owner is refused with
\* PermissionError
C29_RmRefusesOthers ==
    [][RmOfExisting =>
         /\ (result'.exc # "none" => disk' = disk)
         /\ (result'.content.uid # 0 /\ result'.content.uid # EntryUid(RmEntry)
               => result'.exc = "PermissionError")]_vars

(***************************************************************************)
(* C30  Only root adds users.                                              *)
(***************************************************************************)
\* the step stores the record of a user who was not listed before
UserRecordAppended ==
    \E login \in ShellLogins :
        /\ UserIndex(read_users_file(disk), login) = 0
        /\ UserIndex(read_users_file(disk'), login) # 0

\* C30: a record is appended to the users store only by a command acting as
\* root (uid 0) or with sudo mode on; no session that is not logged in, or
\* not root's, creates a user
C30_OnlyRootAddsUsers ==
    [][UserRecordAppended => (result'.mode.uid = 0 \/ result'.mode.sudo_mode)]_vars

\* at the prompt the rule holds: useradd stores a record only as root or
\* under sudo
C30_UseraddOnlyAsRoot ==
    [][UserRecordAppended /\ result'.op \in {"useradd", "sudo useradd"}
         => (result'.mode.uid = 0 \/ result'.mode.sudo_mode)]_vars

(***************************************************************************)
(* C31  Dynamic priority range.                                            *)
(***************************************************************************)
\* C31: for processes added with relative_priority in 1..10, the
\* dynamic_priority of every process is an integer in 1..10 in every
\* reachable state
C31_DynamicPriorityRange ==
    \A i \in DOMAIN sched.all_processes :
        sched.all_processes[i].dynamic_priority \in 1..10

\* a process at the upper end that has run through an update of the
\* priorities, next to one at the lower end that has waited through it
C31_Witness ==
    \E i, j \in DOMAIN sched.all_processes :
        /\ sched.all_processes[i].relative_priority = 10
        /\ sched.all_processes[i].dynamic_priority = 10
        /\ sched.all_processes[i].total_cpu_time >= 2
        /\ sched.all_processes[j].dynamic_priority = 1
        /\ sched.all_processes[j].state = "READY"
        /\ sched.all_processes[j].waiting_time >= 2
        /\ sched.last_update_time >= 1

(***************************************************************************)
(* C32  MLFQ liveness.                                                     *)
(***************************************************************************)
\* every added process is TERMINATED and no queue holds anything
AllTerminated(s) ==
    /\ \A i \in DOMAIN s.all_processes : s.all_processes[i].state = "TERMINATED"
    /\ \A q \in 0..2 : s.queues[q] = << >>
    /\ s.absolute_queue = << >>
    /\ s.current_process = NO_PROCESS

\* the head of the absolute queue has terminated and nothing is running
TerminatedAtHead(s) ==
    /\ s.absolute_queue # << >>
    /\ s.all_processes[Head(s.absolute_queue)].state = "TERMINATED"
    /\ s.current_process = NO_PROCESS

\* what a call of execute_time_slice reads of the scheduler: everything but
\* the counter total_context_switches, the waiting_time of the processes
\* that are not DYNAMIC (calculate_priority reads it for DYNAMIC ones only)
\* and the history scheduling_events, which is only appended to and printed
Decisive(s) ==
    [s EXCEPT !.total_context_switches = 0,
              !.scheduling_events = << >>,
              !.all_processes =
                  [i \in DOMAIN @ |->
                      IF @[i].priority_type = "DYNAMIC" THEN @[i]
                      ELSE [@[i] EXCEPT !.waiting_time = 0]]]

\* execute_time_slice() changes nothing that a later call reads: every
\* later call finds the same scheduler and does the same again
Stalled(s) == Decisive(execute_time_slice(s, 1)) = Decisive(s)

\* C32: once no more processes are added, repeated execute_time_slice calls
\* eventually bring every process to TERMINATED and leave all queues empty;
\* so the scheduler is never in a state that the call leaves as it is while
\* a process has not terminated or a queue is not empty
C32_Liveness == ~(Stalled(sched) /\ ~AllTerminated(sched))

\* what execute_time_slice does is decided by the part of the scheduler
\* that Decisive keeps
C32_SliceReadsDecisive ==
    Decisive(execute_time_slice(Decisive(sched), 1)) = Decisive(execute_time_slice(sched, 1))

\* once the head of the absolute queue has terminated, execute_time_slice
\* leaves it there and lets no process run
C32_TerminatedHeadStays ==
    [][TerminatedAtHead(sched) /\ result'.op = "execute_time_slice"
         => /\ TerminatedAtHead(sched')
            /\ \A i \in DOMAIN sched.all_processes :
                   sched'.all_processes[i].remaining_time = sched.all_processes[i].remaining_time]_vars

\* the calls stall in no other way: a state that execute_time_slice leaves
\* as it is has no process left to run, or a terminated process at the head
\* of the absolute queue
C32_StalledOnlyAtTerminatedHead ==
    Stalled(sched) /\ ~AllTerminated(sched) => TerminatedAtHead(sched)

(***************************************************************************)
(* C33  Queue membership partition.                                        *)
(***************************************************************************)
\* the number of places process pid takes in the ordinary queues and in the
\* absolute queue
PlacesInQueues(s, pid) ==
    Cardinality({<<q, i>> \in (0..2) \X (1..Len(s.all_processes)) :
                    i <= Len(s.queues[q]) /\ s.queues[q][i].pid = pid})
      + Cardinality({i \in 1..Len(s.absolute_queue) : s.absolute_queue[i] = pid})

\* the places of the processes agree with their states
QueuesPartition(s) ==
    \A pid \in DOMAIN s.all_processes :
        /\ s.all_processes[pid].state = "RUNNING" => s.current_process = pid
        /\ s.all_processes[pid].state \in {"RUNNING", "TERMINATED"} => PlacesInQueues(s, pid) = 0
        /\ s.all_processes[pid].state = "READY" => PlacesInQueues(s, pid) = 1
        /\ \A q \in 0..2 : InQueue(s, q, pid) => s.all_processes[pid].current_queue = q

\* no process that has terminated is started by this step
NoTerminatedDispatched ==
    \A pid \in DOMAIN sched.all_processes :
        sched.all_processes[pid].state = "TERMINATED"
            => pid \notin EventsOf(sched', "start") \cup EventsOf(sched', "start_absolute")

\* C33: the RUNNING current process and every TERMINATED process are in no
\* queue, every READY process is in exactly one queue exactly once, ordinary
\* queue q holds only processes with current_queue = q, and a TERMINATED
\* process is never dispatched again
C33_QueuePartition ==
    []QueuesPartition(sched) /\ [][NoTerminatedDispatched]_vars

\* the ordinary queues keep the partition: what breaks it is an ABSOLUTE
\* process in the absolute queue
C33_OrdinaryQueuesPartition ==
    \A pid \in DOMAIN sched.all_processes :
        sched.all_processes[pid].priority_type # "ABSOLUTE"
            => /\ sched.all_processes[pid].state = "RUNNING" => sched.current_process = pid
               /\ sched.all_processes[pid].state \in {"RUNNING", "TERMINATED"}
                      => PlacesInQueues(sched, pid) = 0
               /\ sched.all_processes[pid].state = "READY" => PlacesInQueues(sched, pid) = 1
               /\ \A q \in 0..2 :
                      InQueue(sched, q, pid) => sched.all_processes[pid].current_queue = q

(***************************************************************************)
(* C34  No cross-linked files.                                             *)
(***************************************************************************)
\* the clusters the record in slot s refers to: its first cluster and the
\* chain behind it
ReferencedClusters(d, s) ==
    IF EntryFirstCluster(d.dir[s]) = 0 THEN {}
    ELSE {EntryFirstCluster(d.dir[s])} \cup ChainOf(d, s).clusters

\* no cluster is referred to by two live records
NoCrossLinks(d) ==
    \A s, t \in LiveSlots(d) :
        s # t => ReferencedClusters(d, s) \cap ReferencedClusters(d, t) = {}

\* a write_file that returns leaves the bytes read from every other file as
\* they were
WriteKeepsOtherFiles ==
    (result'.op = "write_file" /\ ~hung')
        => \A name \in (FileNames \cup {STR_users, STR_groups}) \ {result'.name} :
               find_file_entry(disk, name) # NOT_FOUND
                   => read_file(disk', name).bytes = read_file(disk, name).bytes

\* every live record with a first cluster has that cluster marked in the FAT
FirstClustersMarked(d) ==
    \A s \in LiveSlots(d) :
        EntryFirstCluster(d.dir[s]) # 0 => FatEntry(d, EntryFirstCluster(d.dir[s])) # 0

\* C34: in every state reached by create, write (empty data and appends
\* included), delete and rename, the clusters referred to by two different
\* live files are disjoint, and writing one file never changes the bytes read
\* from another
C34_NoCrossLinkedFiles ==
    []NoCrossLinks(disk) /\ [][WriteKeepsOtherFiles]_vars

\* cross-links arise only where a record points to a first cluster that the
\* FAT still shows as free
C34_CrossLinksNeedFreeFirstCluster ==
    [][(NoCrossLinks(disk) /\ FirstClustersMarked(disk) /\ ~hung')
          => (NoCrossLinks(disk') /\ WriteKeepsOtherFiles)]_vars

(***************************************************************************)
(* C35  No leaked clusters.                                                *)
(***************************************************************************)
\* the sum of the chain lengths of the records in the slots S
RECURSIVE ChainLengths(_, _)
ChainLengths(d, S) ==
    IF S = {} THEN 0
    ELSE Cardinality(ChainOf(d, SetMin(S)).clusters) + ChainLengths(d, S \ {SetMin(S)})

\* the data clusters whose FAT entry is not 0 and which are on no live chain
LeakedClusters(d) ==
    {c \in DataClusters :
        /\ FatEntry(d, c) # 0
        /\ \A s \in LiveSlots(d) : c \notin ChainOf(d, s).clusters}

\* C35: every data cluster whose FAT entry is not 0 lies on the chain of a
\* live file, and the used space get_disk_usage reports is the total chain
\* length of the live files
C35_NoLeakedClusters ==
    ~hung =>
        /\ LeakedClusters(disk) = {}
        /\ get_disk_usage(disk).used = ChainLengths(disk, LiveSlots(disk)) * CLUSTER_SIZE

\* leaks come from rewriting a file that already has clusters and from
\* writes that fail: create, delete, rename and the first write of a file,
\* when they return, leak nothing
C35_OnlyRewritesLeak ==
    [][(/\ LeakedClusters(disk) = {}
        /\ ~hung' /\ result'.exc = "none"
        /\ result'.op = "write_file" => result'.first_before \in {NOT_FOUND, 0})
          => LeakedClusters(disk') = {}]_vars

(***************************************************************************)
(* C36  Delete terminates.                                                 *)
(***************************************************************************)
\* the chain walk from the first cluster of slot s reaches END_OF_CHAIN
WalkReachesEnd(d, s) ==
    EntryFirstCluster(d.dir[s]) # 0 => ChainOf(d, s).end = "eoc"

\* C36: in every state reached by create, write, append and delete,
\* delete_file(name) on an existing file returns: the chain walk of
\* free_cluster_chain reaches END_OF_CHAIN and runs neither through a free
\* entry nor around a cycle
C36_DeleteTerminates ==
    /\ [](~hung => \A s \in LiveSlots(disk) : WalkReachesEnd(disk, s))
    /\ [][\A name \in FileNames :
              (DeleteStep(name) /\ find_file_entry(disk, name) # NOT_FOUND)
                  => ~hung']_vars

\* delete_file returns exactly for the files whose chain walk reaches
\* END_OF_CHAIN
C36_DeleteHangsOnOpenChain ==
    [][\A name \in FileNames :
          (DeleteStep(name) /\ find_file_entry(disk, name) # NOT_FOUND)
              => (hung' <=> ~WalkReachesEnd(disk, find_file_entry(disk, name)))]_vars

(***************************************************************************)
(* C37  CPU time conservation.                                             *)
(***************************************************************************)
\* the sum of total_cpu_time over the processes 1..n of s
RECURSIVE TotalCpuTime(_, _)
TotalCpuTime(s, n) ==
    IF n = 0 THEN 0 ELSE s.all_processes[n].total_cpu_time + TotalCpuTime(s, n - 1)

\* the accounting of one process
ProcessTimeConserved(process) ==
    /\ process.remaining_time >= 0
    /\ process.total_cpu_time + process.remaining_time = process.burst_time

\* the accounting of the scheduler
TimeConserved(s) ==
    /\ \A pid \in DOMAIN s.all_processes : ProcessTimeConserved(s.all_processes[pid])
    /\ s.current_time = TotalCpuTime(s, Len(s.all_processes))

\* a step in which no process gets CPU time
NothingRuns ==
    \A pid \in DOMAIN sched.all_processes :
        sched'.all_processes[pid].total_cpu_time = sched.all_processes[pid].total_cpu_time

\* C37: every process has remaining_time >= 0 and total_cpu_time +
\* remaining_time = burst_time, current_time is the sum of total_cpu_time over
\* all processes, and a step in which nothing runs leaves current_time
\* unchanged
C37_CpuTimeConservation ==
    /\ []TimeConserved(sched)
    /\ [][NothingRuns => sched'.current_time = sched.current_time]_vars

\* a time slice has passed in which nothing ran (no process is current and
\* the slice recorded no event), after a process has used its whole burst
C37_Witness ==
    /\ result.op = "execute_time_slice"
    /\ sched.current_process = NO_PROCESS
    /\ sched.scheduling_events = << >>
    /\ sched.current_time > 0
    /\ \E pid \in DOMAIN sched.all_processes :
           /\ sched.all_processes[pid].state = "TERMINATED"
           /\ sched.all_processes[pid].total_cpu_time = sched.all_processes[pid].burst_time

(***************************************************************************)
(* C38  No run before arrival.                                             *)
(***************************************************************************)
\* the process was not dispatched before its arrival_time, and the waiting
\* time display_final_statistics reports for it is not negative
RunsAfterArrival(process) ==
    /\ process.start_time # NONE => process.start_time >= process.arrival_time
    /\ process.state = "TERMINATED"
           => process.completion_time - process.arrival_time >= process.burst_time

\* C38: a process added with an arrival_time later than current_time is not
\* dispatched before the simulated time reaches its arrival_time: start_time
\* >= arrival_time, and for a terminated process completion_time -
\* arrival_time >= burst_time
C38_NoRunBeforeArrival ==
    \A pid \in DOMAIN sched.all_processes : RunsAfterArrival(sched.all_processes[pid])

\* a process that starts gets the time of its dispatch as start_time,
\* whatever its arrival_time is, and a process that was not started before
\* its arrival_time has no negative waiting time
C38_StartIsDispatchTime ==
    /\ [][\A pid \in DOMAIN sched.all_processes :
              (sched.all_processes[pid].start_time = NONE
                 /\ sched'.all_processes[pid].start_time # NONE)
                  => sched'.all_processes[pid].start_time = sched.current_time]_vars
    /\ [](\A pid \in DOMAIN sched.all_processes :
              (sched.all_processes[pid].state = "TERMINATED"
                 /\ sched.all_processes[pid].start_time >= sched.all_processes[pid].arrival_time)
                  => sched.all_processes[pid].completion_time
                         - sched.all_processes[pid].arrival_time
                             >= sched.all_processes[pid].burst_time)

(***************************************************************************)
(* C39  Single-queue scheduler liveness.                                   *)
(***************************************************************************)
\* every process added to the Scheduler is TERMINATED
AllQueueTerminated(s) ==
    \A pid \in DOMAIN s.processes : s.processes[pid].state = "TERMINATED"

\* a process waits for an arrival_time that the clock has not reached
AwaitsArrival(s, pid) ==
    /\ s.processes[pid].state = "READY"
    /\ s.processes[pid].arrival_time > s.current_time

\* C39: every process added with a positive burst_time, also one whose
\* arrival_time is later than the time at which the earlier processes have
\* finished, is eventually put into the ready queue, run and brought to
\* TERMINATED by repeated execute_time_slice, and run_simulation does not
\* report the end while an added process is not TERMINATED
C39_SchedulerLiveness ==
    /\ <>[]AllQueueTerminated(sched)
    /\ [](ReportedDone => AllQueueTerminated(sched))

\* every process is brought to TERMINATED unless it waits for an arrival_time
\* that the clock, which stands still while nothing runs, has not reached
C39_LiveUnlessAwaitingArrival ==
    /\ <>[](\A pid \in DOMAIN sched.processes :
                sched.processes[pid].state = "TERMINATED" \/ AwaitsArrival(sched, pid))
    /\ [](ReportedDone =>
            \A pid \in DOMAIN sched.processes :
                sched.processes[pid].state = "TERMINATED" \/ AwaitsArrival(sched, pid))

(***************************************************************************)
(* C40  Record layout agreement.                                           *)
(***************************************************************************)
\* file_entry[offset] as PermissionChecker reads it; NONE where the index is
\* outside the record
ConfigByte(file_entry, offset) ==
    IF offset < Len(file_entry) THEN file_entry[offset + 1] ELSE NONE

\* the check reads the attribute, the owner and the mode of the record where
\* FAT32Formatter has written them
LayoutAgrees(file_entry) ==
    /\ CONFIG_OFFSET_ATTRIBUTE = OFFSET_ATTRIBUTE
    /\ CONFIG_OFFSET_UID = OFFSET_UID
    /\ CONFIG_OFFSET_GID = OFFSET_GID
    /\ CONFIG_OFFSET_PERMISSIONS = OFFSET_PERMISSIONS
    /\ ConfigByte(file_entry, CONFIG_OFFSET_ATTRIBUTE) = EntryAttribute(file_entry)
    /\ ConfigByte(file_entry, CONFIG_OFFSET_UID) = EntryUid(file_entry)
    /\ ConfigByte(file_entry, CONFIG_OFFSET_GID) = EntryGid(file_entry)
    /\ Slice(file_entry, CONFIG_OFFSET_PERMISSIONS, CONFIG_OFFSET_PERMISSIONS + 2)
           = Slice(file_entry, OFFSET_PERMISSIONS, OFFSET_PERMISSIONS + 2)

\* C40: the offsets at which the permission check reads the attribute byte,
\* the owner uid, the owner gid and the permission bits of a directory
\* record are the offsets at which FAT32Formatter writes them, so that for
\* every record produced by create_file the check evaluates the attribute,
\* the owner and the mode that were stored
C40_RecordLayoutAgreement ==
    \A name \in FileNames :
        find_file_entry(disk, name) # NOT_FOUND
            => LayoutAgrees(disk.dir[find_file_entry(disk, name)])

\* what the check reads in a record of FILE_RECORD_SIZE bytes: as attribute
\* the last byte of the first cluster number, and nothing as owner, group
\* and mode, which lie behind the end of the record
C40_CheckReadsFirstCluster ==
    \A name \in FileNames :
        find_file_entry(disk, name) # NOT_FOUND
            => /\ Len(disk.dir[find_file_entry(disk, name)]) = FILE_RECORD_SIZE
               /\ ConfigByte(disk.dir[find_file_entry(disk, name)], CONFIG_OFFSET_ATTRIBUTE)
                      = EntryFirstCluster(disk.dir[find_file_entry(disk, name)]) % 256
               /\ ConfigByte(disk.dir[find_file_entry(disk, name)], CONFIG_OFFSET_UID) = NONE
               /\ ConfigByte(disk.dir[find_file_entry(disk, name)], CONFIG_OFFSET_GID) = NONE
               /\ Slice(disk.dir[find_file_entry(disk, name)], CONFIG_OFFSET_PERMISSIONS,
                        CONFIG_OFFSET_PERMISSIONS + 2) = << >>

====
